---- MODULE Spec2Model ----
(***************************************************************************)
(* Model of the invoice-processor extraction pipeline                      *)
(* (internal/processor/pipeline.go) and of the decimal line-item           *)
(* calculator (internal/model/invoice.go).                                 *)
(*                                                                         *)
(* A Process* call is followed step by step: every collaborator call       *)
(* (XML registry, PDF text miner, rasterizer, model call) is one step, and *)
(* its outcome is chosen by the environment.  `log` is the trace of the    *)
(* collaborator calls of the call in flight.                               *)
(*                                                                         *)
(* The invoice totals, the response normalizer (internal/llm/extractor.go) *)
(* with its numeric-literal parser, the printability filter of the PDF     *)
(* text miner and the format detection are each exercised by a             *)
(* specification of their own: an input is chosen, then the operation is   *)
(* applied to it.                                                          *)
(***************************************************************************)
EXTENDS Integers, Sequences, FiniteSets, TLC

VARIABLES
    llmExtractor,   \* Pipeline.llmExtractor: "nil" or "configured"
    pc,             \* position of the Process* call in flight
    op,             \* the public operation that was invoked
    ctx,            \* the context token of the call: "live" or "cancelled"
    data,           \* the bytes being processed (data / pdfData)
    mimeType,       \* the caller-declared MIME type
    textResult,     \* ProcessPDF: result of tryLLMTextExtraction
    visionResult,   \* result of tryLLMVisionExtraction
    images,         \* tryLLMVisionExtraction: pages returned by ConvertToImages
    imageData,      \* tryLLMVisionExtraction: bytes handed to the vision model
    imageMimeType,  \* tryLLMVisionExtraction: MIME handed to the vision model
    result,         \* the Result returned by the Process* call
    log,            \* collaborator calls made by the call in flight, in order
    li,             \* the LineItem the calculator works on
    liBefore,       \* the LineItem as it was when Calculate was last called
    calcCalls,      \* number of Calculate calls made on li
    resp,           \* the decoded model response (LLMResponse) handed to convertToInvoice
    invoice,        \* the Invoice being built or recalculated (inv)
    invBefore,      \* the Invoice as it was before the last operation on it
    invOps,         \* operations applied to the invoice so far, in order
    fnArg,          \* argument of the pure function under call
    fnRet,          \* its return value
    fnDone          \* TRUE once the function has returned

pipelineVars == <<llmExtractor, pc, op, ctx, data, mimeType, textResult, visionResult,
                  images, imageData, imageMimeType, result, log>>
calcVars == <<li, liBefore, calcCalls>>
invVars == <<resp, invoice, invBefore, invOps>>
fnVars == <<fnArg, fnRet, fnDone>>
vars == <<llmExtractor, pc, op, ctx, data, mimeType, textResult, visionResult,
          images, imageData, imageMimeType, result, log, li, liBefore, calcCalls,
          resp, invoice, invBefore, invOps, fnArg, fnRet, fnDone>>

----------------------------------------------------------------------------
(* Bounds *)

\* largest number of page images one rasterization produces in the model
MaxPages == 2
\* quantities and unit prices have coefficients in -MaxCoef..MaxCoef
MaxCoef == 5
\* and at most MaxExp fractional digits
MaxExp == 1
\* Calculate is called at most MaxCalcCalls times on one line item
MaxCalcCalls == 2
\* inputs of DetectFormat have at most MaxTail bytes after their core
MaxTail == 5
\* candidate strings of the printability filter have at most MaxRunes runes
MaxRunes == 4
\* numeric literals have at most MaxTokenLen characters
MaxTokenLen == 5
\* invoices of several items have at most MaxItems line items
MaxItems == 3
\* canonical invoices have at most MaxCanonicalItems line items
MaxCanonicalItems == 2
\* CalculateTotals is called at most MaxTotalsCalls times on one invoice
MaxTotalsCalls == 2
\* content streams are made of at most MaxPieces pieces
MaxPieces == 3
\* mined texts have at most MaxLines lines
MaxLines == 3
\* FindNear is called with a maxDistance of at most MaxDistance
MaxDistance == 2

----------------------------------------------------------------------------
(* Values *)

MethodXML == "xml"
MethodLLMText == "llm_text"
MethodLLMVision == "llm_vision"
Methods == {MethodXML, MethodLLMText, MethodLLMVision}

\* Confidence is a float64 in the source; the model counts hundredths.
ConfidenceXML == 100
ConfidenceLLMText == 85
ConfidenceLLMVision == 80

\* An error is the chain of its message parts; the nil error is the empty chain.
NoError == <<>>
\* A nil *model.Invoice, and the invoices the collaborators hand back.
NoInvoice == "nil"
InvoiceFromXML == "invoice(xml registry)"
InvoiceFromText == "invoice(text normalizer)"
InvoiceFromVision == "invoice(vision normalizer)"

Res(inv, method, conf, warnings, err) ==
    [Invoice |-> inv, Method |-> method, Confidence |-> conf,
     Warnings |-> warnings, Error |-> err]

\* &Result{Error: err, Warnings: warnings}: every other field keeps its zero value
ErrorResult(err, warnings) == Res(NoInvoice, "", 0, warnings, err)

\* the zero Result, held by the locals before they are assigned
ZeroResult == Res(NoInvoice, "", 0, <<>>, NoError)

\* fmt's %v of an error
FmtV(err) == IF err = NoError THEN <<"<nil>">> ELSE err

\* fmt.Errorf(msg + ": %w", err)
Wrap(msg, err) == <<msg>> \o FmtV(err)

\* Byte strings are sequences of byte values.
PDFMagic == <<37, 80, 68, 70>>             \* "%PDF"
SamplePDF == <<37, 80, 68, 70, 45>>        \* "%PDF-"
SampleTruncatedPDF == <<37, 80, 68>>       \* "%PD"
SampleJPEG == <<255, 216, 255, 224>>
SamplePNG == <<137, 80, 78, 71, 13>>
SampleOther == <<71, 73, 70>>              \* "GIF"

DataSamples == {<<>>, SamplePDF, SampleTruncatedPDF, SampleJPEG, SamplePNG}
PageSamples == {SampleJPEG, SamplePNG, SampleOther}
MimeTypes == {"application/pdf", "image/png", "image/jpeg", ""}
CtxStates == {"live", "cancelled"}

\* the image files a rasterizer run leaves in the temp directory, in name order
RasterFiles == UNION {[1..n -> PageSamples] : n \in 0..MaxPages}

\* an io.Reader argument: nil, a reader that fails, or one that yields content
NilReader == [kind |-> "nil", content |-> <<>>]
FailingReader == [kind |-> "fail", content |-> <<>>]
OkReader(d) == [kind |-> "ok", content |-> d]
Readers == {NilReader, FailingReader} \cup {OkReader(d) : d \in DataSamples}

Event(fn, out) == [fn |-> fn, out |-> out]

----------------------------------------------------------------------------
(* Pure helpers of pipeline.go *)

HasPrefix(d, p) == Len(d) >= Len(p) /\ SubSeq(d, 1, Len(p)) = p

\* a variant of IsPDFInput that trusts the declared MIME type alone
IsPDFInput_MimeOnly(d, mime) == mime = "application/pdf"

\* the test that opens tryLLMVisionExtraction
IsPDFInput(d, mime) ==
    mime = "application/pdf" \/ (Len(d) >= 4 /\ SubSeq(d, 1, 4) = PDFMagic)

\* a variant of detectImageMimeType whose PNG test is never reached
detectImageMimeType_JPEGOnly(d) == "image/jpeg"

detectImageMimeType(d) ==
    IF Len(d) >= 3 /\ d[1] = 255 /\ d[2] = 216 /\ d[3] = 255 THEN "image/jpeg"
    ELSE IF Len(d) >= 4 /\ d[1] = 137 /\ d[2] = 80 /\ d[3] = 78 /\ d[4] = 71
         THEN "image/png"
    ELSE "image/jpeg"

----------------------------------------------------------------------------
(* Collaborators *)

XMLParseError == <<"xml: no adapter could parse the document">>
ReadError == <<"read error">>
ChatError == <<"chat completion failed">>
JSONError == <<"invalid JSON">>
ToolError == <<"exit status 1">>
IOError == <<"i/o error">>

\* xml.Registry.Parse: bytes -> Invoice | error
XMLParseOutcomes == {"ok", "err"}

\* The model-call client threads the context through: a call made on a
\* cancelled context fails; otherwise it answers or fails.
ChatOutcomes(c) == IF c = "cancelled" THEN {"err"} ELSE {"ok", "err"}

\* json.Unmarshal of the isolated payload
DecodeOutcomes == {"ok", "err"}

\* exec.CommandContext(...).Run(): fails on a cancelled context
ToolOutcomes(c) == IF c = "cancelled" THEN {"fail"} ELSE {"ok", "fail"}

\* os.MkdirTemp and os.WriteFile at the start of ConvertToImages
SetupOutcomes == {"ok", "mkdir_err", "write_err"}

\* What the structural PDF reader does during one Extract run.
RawTexts == {"", "HOA DON 0001\n"}
MinerRuns ==
    [pageCount : {"ok", "err"}, tmpDir : {"ok", "err"}, content : {"ok", "err"},
     validate : {"ok", "err"}, text : RawTexts]

\* pdf.Extractor.Extract / ExtractBytes: the context is not consulted
ExtractBytes(m) ==
    IF m.pageCount = "err"
    THEN [RawText |-> "", err |-> Wrap("failed to get page count", IOError)]
    ELSE IF m.tmpDir = "err"
    THEN [RawText |-> "", err |-> Wrap("failed to create temp dir", IOError)]
    ELSE IF m.content = "err"
    THEN \* extractFromContext
         IF m.validate = "err"
         THEN [RawText |-> "", err |-> Wrap("failed to read PDF", IOError)]
         ELSE [RawText |-> m.text, err |-> NoError]
    ELSE [RawText |-> m.text, err |-> NoError]

\* llm.Extractor.parseResponse: convertToInvoice never fails
parseResponse(decode, inv) ==
    IF decode = "err"
    THEN [invoice |-> NoInvoice, err |-> Wrap("failed to parse LLM response", JSONError)]
    ELSE [invoice |-> inv, err |-> NoError]

\* llm.Extractor.ExtractFromOCRText
ExtractFromOCRText(chat, decode) ==
    IF chat = "err"
    THEN [invoice |-> NoInvoice, err |-> Wrap("LLM request failed", ChatError)]
    ELSE parseResponse(decode, InvoiceFromText)

\* llm.Extractor.ExtractFromImage
ExtractFromImage(chat, decode) ==
    IF chat = "err"
    THEN [invoice |-> NoInvoice, err |-> Wrap("LLM request failed", ChatError)]
    ELSE parseResponse(decode, InvoiceFromVision)

\* pdf.convertPDFToImages: pdftoppm first, ImageMagick convert if it fails
convertPDFToImages(tool1, tool2) ==
    IF tool1 = "fail"
    THEN IF tool2 = "fail"
         THEN Wrap("pdftoppm and convert both failed", ToolError)
         ELSE NoError
    ELSE NoError

\* pdf.Extractor.ConvertToImages
ConvertToImages(setup, tool1, tool2, files) ==
    IF setup = "mkdir_err"
    THEN [images |-> <<>>, err |-> Wrap("failed to create temp dir", IOError)]
    ELSE IF setup = "write_err"
    THEN [images |-> <<>>, err |-> Wrap("failed to write temp PDF", IOError)]
    ELSE IF convertPDFToImages(tool1, tool2) # NoError
    THEN [images |-> <<>>,
          err |-> Wrap("failed to convert PDF to images", convertPDFToImages(tool1, tool2))]
    ELSE IF Len(files) = 0
    THEN [images |-> <<>>, err |-> <<"no images generated from PDF">>]
    ELSE [images |-> files, err |-> NoError]

----------------------------------------------------------------------------
(* Results built by pipeline.go *)

\* ProcessXMLBytes, after xmlRegistry.Parse
ProcessXMLBytesResult(out) ==
    IF out = "err"
    THEN ErrorResult(Wrap("XML parsing failed", XMLParseError), <<>>)
    ELSE Res(InvoiceFromXML, MethodXML, ConfidenceXML, <<>>, NoError)

\* tryLLMTextExtraction, when ExtractBytes failed or mined no text
tryLLMTextExtractionNoText(ex) ==
    IF ex.err # NoError
    THEN ErrorResult(ex.err, << <<"PDF text extraction failed">> \o FmtV(ex.err) >>)
    ELSE ErrorResult(<<"no text extracted from PDF">>,
                     << <<"PDF contains no extractable text">> >>)

\* tryLLMTextExtraction, after ExtractFromOCRText
tryLLMTextExtractionResult(x) ==
    IF x.err # NoError
    THEN ErrorResult(x.err, << <<"LLM text extraction failed">> \o FmtV(x.err) >>)
    ELSE Res(x.invoice, MethodLLMText, ConfidenceLLMText, <<>>, NoError)

\* tryLLMVisionExtraction, when ConvertToImages failed
tryLLMVisionExtractionNoImage(err) ==
    ErrorResult(Wrap("failed to convert PDF to images", err),
                << <<"PDF to image conversion failed">> \o FmtV(err) >>)

\* tryLLMVisionExtraction, after ExtractFromImage
tryLLMVisionExtractionResult(x) ==
    IF x.err # NoError
    THEN ErrorResult(x.err, << <<"LLM vision extraction failed">> \o FmtV(x.err) >>)
    ELSE Res(x.invoice, MethodLLMVision, ConfidenceLLMVision, <<>>, NoError)

\* variants of TextStageWins: the test of the error inverted, and || for &&
TextStageWins_ErrorInverted(tr) == tr.Invoice # NoInvoice /\ tr.Error # NoError
TextStageWins_Or(tr) == tr.Invoice # NoInvoice \/ tr.Error # NoError

\* ProcessPDF: the text stage's result is returned at once
TextStageWins(tr) == tr.Invoice # NoInvoice /\ tr.Error = NoError

\* a variant of ProcessPDFReturn that returns the warnings without the error
ProcessPDFReturn_NoError(tr, vr) ==
    IF vr.Invoice # NoInvoice THEN vr
    ELSE ErrorResult(NoError, tr.Warnings \o vr.Warnings)

\* a variant of ProcessPDFReturn that forgets to append the vision stage's warnings
ProcessPDFReturn_TextWarningsOnly(tr, vr) ==
    IF vr.Invoice # NoInvoice THEN vr
    ELSE ErrorResult(<<"PDF extraction failed", "text:">> \o FmtV(tr.Error)
                         \o <<"vision:">> \o FmtV(vr.Error),
                     tr.Warnings)

\* a variant of ProcessPDFReturn that carries the text stage's warnings into
\* the vision stage's success
ProcessPDFReturn_KeepsTextWarnings(tr, vr) ==
    IF vr.Invoice # NoInvoice
    THEN [vr EXCEPT !.Warnings = tr.Warnings \o vr.Warnings]
    ELSE ErrorResult(<<"PDF extraction failed", "text:">> \o FmtV(tr.Error)
                         \o <<"vision:">> \o FmtV(vr.Error),
                     tr.Warnings \o vr.Warnings)

\* ProcessPDF, after both stages ran
ProcessPDFReturn(tr, vr) ==
    IF vr.Invoice # NoInvoice THEN vr
    ELSE LET warnings == IF vr.Error # NoError
                         THEN tr.Warnings \o vr.Warnings
                         ELSE tr.Warnings
         IN  IF vr.Error # NoError
             THEN ErrorResult(<<"PDF extraction failed", "text:">> \o FmtV(tr.Error)
                                  \o <<"vision:">> \o FmtV(vr.Error),
                              warnings)
             ELSE IF tr.Error # NoError
             THEN ErrorResult(Wrap("PDF extraction failed", tr.Error), tr.Warnings)
             ELSE ErrorResult(<<"PDF extraction failed">>, <<>>)

\* what the caller of tryLLMVisionExtraction returns
AfterVision(o, tr, vr) == IF o = "ProcessImage" THEN vr ELSE ProcessPDFReturn(tr, vr)

\* ProcessPDF up to the call of tryLLMTextExtraction
ProcessPDFEntry(r, img) ==
    IF llmExtractor = "nil"
    THEN [pc |-> "done", data |-> <<>>,
          result |-> ErrorResult(
              <<"LLM extractor not configured - required for PDF processing">>, <<>>)]
    ELSE IF r.kind # "nil"
    THEN IF r.kind = "fail"
         THEN [pc |-> "done", data |-> <<>>,
               result |-> ErrorResult(Wrap("failed to read PDF", ReadError), <<>>)]
         ELSE [pc |-> "text_extract", data |-> r.content, result |-> ZeroResult]
    ELSE IF Len(img) > 0
    THEN [pc |-> "text_extract", data |-> img, result |-> ZeroResult]
    ELSE [pc |-> "done", data |-> <<>>,
          result |-> ErrorResult(<<"no PDF data provided">>, <<>>)]

----------------------------------------------------------------------------
(* Fixed-point decimals (shopspring/decimal) and the calculator of invoice.go *)

\* A decimal is a coefficient c and a number e of fractional digits: c / 10^e.
Dec(c, e) == [c |-> c, e |-> e]
Zero == Dec(0, 0)

RECURSIVE Pow10(_)
Pow10(n) == IF n = 0 THEN 1 ELSE 10 * Pow10(n - 1)

Abs(n) == IF n < 0 THEN -n ELSE n
Max(a, b) == IF a > b THEN a ELSE b

\* big.Int.Quo: the quotient truncated toward zero
QuoTrunc(n, d) == IF n >= 0 THEN n \div d ELSE -((-n) \div d)

\* n / d rounded to an integer, half away from zero (d > 0)
RoundQuot(n, d) ==
    LET q == Abs(n) \div d
        r == Abs(n) % d
        m == IF 2 * r >= d THEN q + 1 ELSE q
    IN  IF n < 0 THEN -m ELSE m

\* Decimal.rescale to e fractional digits: exact upward, truncating downward
Rescale(d, e) ==
    IF e >= d.e THEN Dec(d.c * Pow10(e - d.e), e)
    ELSE Dec(QuoTrunc(d.c, Pow10(d.e - e)), e)

NewFromInt(n) == Dec(n, 0)
IsZero(d) == d.c = 0
Mul(a, b) == Dec(a.c * b.c, a.e + b.e)
Add(a, b) == Dec(Rescale(a, Max(a.e, b.e)).c + Rescale(b, Max(a.e, b.e)).c, Max(a.e, b.e))
Sub(a, b) == Dec(Rescale(a, Max(a.e, b.e)).c - Rescale(b, Max(a.e, b.e)).c, Max(a.e, b.e))

\* decimal.DivisionPrecision: Div rounds its quotient to this many fractional digits
DivisionPrecision == 16

\* d.Div(decimal.NewFromInt(100)): DivRound(100, DivisionPrecision), which is the
\* exact quotient while it has no more than DivisionPrecision fractional digits
Div100(d) ==
    IF d.e + 2 <= DivisionPrecision THEN Dec(d.c, d.e + 2)
    ELSE Dec(RoundQuot(d.c, Pow10(d.e + 2 - DivisionPrecision)), DivisionPrecision)

\* d.Round(0): truncate to one fractional digit, add or subtract 0.5, take the floor
\* of a positive and the ceiling of a negative value
Round0(d) ==
    IF d.e = 0 THEN d
    ELSE LET t == Rescale(d, 1).c
             v == IF t < 0 THEN t - 5 ELSE t + 5
             q == v \div 10
             m == v % 10
         IN  Dec(IF v < 0 /\ m # 0 THEN q + 1 ELSE q, 0)

\* a variant of Calculate that charges VAT on the amount before discount
Calculate_VATOnAmount(item) ==
    LET Amount == Mul(item.Quantity, item.UnitPrice)
        DiscountAmt == IF ~IsZero(item.Discount)
                       THEN Round0(Div100(Mul(Amount, item.Discount)))
                       ELSE item.DiscountAmt
        taxableAmount == Sub(Amount, DiscountAmt)
        VATAmount == Round0(Div100(Mul(Amount, NewFromInt(item.VATRate))))
    IN  [item EXCEPT !.Amount = Amount,
                     !.DiscountAmt = DiscountAmt,
                     !.VATAmount = VATAmount,
                     !.Total = Round0(Add(taxableAmount, VATAmount))]

\* a variant of Calculate that adds the discount to the amount already stored
Calculate_AddsToDiscount(item) ==
    LET Amount == Mul(item.Quantity, item.UnitPrice)
        DiscountAmt == IF ~IsZero(item.Discount)
                       THEN Add(item.DiscountAmt, Round0(Div100(Mul(Amount, item.Discount))))
                       ELSE item.DiscountAmt
        taxableAmount == Sub(Amount, DiscountAmt)
        VATAmount == Round0(Div100(Mul(taxableAmount, NewFromInt(item.VATRate))))
    IN  [item EXCEPT !.Amount = Amount,
                     !.DiscountAmt = DiscountAmt,
                     !.VATAmount = VATAmount,
                     !.Total = Round0(Add(taxableAmount, VATAmount))]

\* LineItem.Calculate
Calculate(item) ==
    LET Amount == Mul(item.Quantity, item.UnitPrice)
        DiscountAmt == IF ~IsZero(item.Discount)
                       THEN Round0(Div100(Mul(Amount, item.Discount)))
                       ELSE item.DiscountAmt
        taxableAmount == Sub(Amount, DiscountAmt)
        VATAmount == Round0(Div100(Mul(taxableAmount, NewFromInt(item.VATRate))))
    IN  [item EXCEPT !.Amount = Amount,
                     !.DiscountAmt = DiscountAmt,
                     !.VATAmount = VATAmount,
                     !.Total = Round0(Add(taxableAmount, VATAmount))]

LineItem(q, p, d, r, da) ==
    [Quantity |-> q, UnitPrice |-> p, Discount |-> d, VATRate |-> r,
     Amount |-> Zero, DiscountAmt |-> da, VATAmount |-> Zero, Total |-> Zero]

\* the line item of a pipeline run, which never reaches the calculator
IdleLineItem == LineItem(Zero, Zero, Zero, 0, Zero)

\* Inputs of the calculator: quantities and prices with fractions and signs,
\* discount percents, VAT rates as the normalizer can produce them (any integer), and
\* a discount amount filled in before the call.
Coefficients == (0 - MaxCoef)..MaxCoef
InputDecimals == {Dec(c, e) : c \in Coefficients, e \in 0..MaxExp}
DiscountPercents == {Zero, Dec(10, 0), Dec(50, 0), Dec(25, 1), Dec(-10, 0)}
VATRates == {0, 5, 8, 10, -5}
PriorDiscountAmts == {Zero, Dec(7, 0), Dec(5, 1)}
InputLineItems ==
    {LineItem(q, p, d, r, da) : q \in InputDecimals, p \in InputDecimals,
                                d \in DiscountPercents, r \in VATRates,
                                da \in PriorDiscountAmts}

----------------------------------------------------------------------------
(* Invoices (internal/model/invoice.go) *)

\* Party: seller or buyer
Party(name, taxID, bankAccount, bankName) ==
    [Name |-> name, TaxID |-> taxID, Address |-> "", Phone |-> "", Email |-> "",
     BankAccount |-> bankAccount, BankName |-> bankName]

ZeroParty == Party("", "", "", "")

\* Date is a time.Time in the source; the model keeps the calendar day as
\* <<year, month, day>>, and the zero time is 0001-01-01.
ZeroDate == <<1, 1, 1>>

\* The Invoice struct without ID, ExchangeRate, PaymentTerms, Signature,
\* RawXML and SourceFile, which no operation of the model reads or writes.
ZeroInvoice ==
    [Number |-> "", Series |-> "", Date |-> ZeroDate, Type |-> "", Provider |-> "",
     Seller |-> ZeroParty, Buyer |-> ZeroParty, Items |-> <<>>,
     SubtotalAmount |-> Zero, TaxAmount |-> Zero, TotalAmount |-> Zero,
     Currency |-> "", Remarks |-> "", DocumentType |-> "", Cashier |-> "",
     TerminalID |-> "", PaymentMethod |-> "", ReceiptNumber |-> "",
     ReceiptTime |-> "", AmountTendered |-> Zero, Change |-> Zero]

\* a LineItem of an invoice: the calculator's fields and the descriptive ones
InvoiceItem(number, name, item) ==
    [Number |-> number, Code |-> "", Name |-> name, Description |-> "", Unit |-> "",
     Quantity |-> item.Quantity, UnitPrice |-> item.UnitPrice,
     Discount |-> item.Discount, VATRate |-> item.VATRate,
     Amount |-> item.Amount, DiscountAmt |-> item.DiscountAmt,
     VATAmount |-> item.VATAmount, Total |-> item.Total]

\* subtotal after the first n items: subtotal.Add(Amount.Sub(DiscountAmt))
RECURSIVE SubtotalOf(_, _)
SubtotalOf(items, n) ==
    IF n = 0 THEN Zero
    ELSE Add(SubtotalOf(items, n - 1), Sub(items[n].Amount, items[n].DiscountAmt))

\* tax after the first n items: tax.Add(VATAmount)
RECURSIVE TaxOf(_, _)
TaxOf(items, n) ==
    IF n = 0 THEN Zero
    ELSE Add(TaxOf(items, n - 1), items[n].VATAmount)

\* the variant that adds the tax to the rounded subtotal
CalculateTotals_FromRounded(doc) ==
    LET items == [i \in DOMAIN doc.Items |-> Calculate(doc.Items[i])]
        subtotal == SubtotalOf(items, Len(items))
        tax == TaxOf(items, Len(items))
    IN  [doc EXCEPT !.Items = items,
                        !.SubtotalAmount = Round0(subtotal),
                        !.TaxAmount = Round0(tax),
                        !.TotalAmount = Round0(Add(Round0(subtotal), Round0(tax)))]

\* a variant of CalculateTotals that leaves the tax out of the total
CalculateTotals_TotalWithoutTax(doc) ==
    LET items == [i \in DOMAIN doc.Items |-> Calculate(doc.Items[i])]
        subtotal == SubtotalOf(items, Len(items))
        tax == TaxOf(items, Len(items))
    IN  [doc EXCEPT !.Items = items,
                        !.SubtotalAmount = Round0(subtotal),
                        !.TaxAmount = Round0(tax),
                        !.TotalAmount = Round0(subtotal)]

\* (inv *Invoice) CalculateTotals()
CalculateTotals(doc) ==
    LET items == [i \in DOMAIN doc.Items |-> Calculate(doc.Items[i])]
        subtotal == SubtotalOf(items, Len(items))
        tax == TaxOf(items, Len(items))
    IN  [doc EXCEPT !.Items = items,
                        !.SubtotalAmount = Round0(subtotal),
                        !.TaxAmount = Round0(tax),
                        !.TotalAmount = Round0(Add(subtotal, tax))]

\* Line items for invoices of several items: whole and fractional amounts,
\* returns (negative quantities), discounts, and a prior DiscountAmt.
ItemSamples ==
    {LineItem(Dec(5, 0), Dec(2, 0), Zero, 10, Zero),
     LineItem(Dec(-5, 0), Dec(2, 0), Zero, 0, Zero),
     LineItem(Dec(-5, 1), Dec(1, 0), Zero, 0, Zero),
     LineItem(Dec(5, 1), Dec(1, 0), Zero, 5, Zero),
     LineItem(Dec(5, 1), Dec(5, 0), Dec(50, 0), 10, Zero),
     LineItem(Dec(3, 0), Dec(5, 0), Dec(10, 0), 5, Zero),
     LineItem(Dec(5, 0), Dec(5, 0), Zero, 8, Zero),
     LineItem(Dec(1, 0), Dec(1, 0), Zero, 0, Dec(7, 0))}

RECURSIVE SeqsUpTo(_, _)
SeqsUpTo(S, n) ==
    IF n = 0 THEN {<<>>}
    ELSE LET shorter == SeqsUpTo(S, n - 1)
         IN  shorter \cup {Append(s, x) : s \in {q \in shorter : Len(q) = n - 1}, x \in S}

InvoiceOf(items) ==
    [ZeroInvoice EXCEPT !.Number = "0000123", !.Currency = "VND",
                        !.Items = [i \in DOMAIN items |-> InvoiceItem(i, "item", items[i])]]

\* invoices handed to CalculateTotals: every single line item of
\* InputLineItems, and every list of up to MaxItems sample items
InputInvoices ==
    {InvoiceOf(<<item>>) : item \in InputLineItems}
        \cup {InvoiceOf(items) : items \in SeqsUpTo(ItemSamples, MaxItems)}

----------------------------------------------------------------------------
(* The model's response (internal/llm/extractor.go) *)

\* A json.Number is the literal's text: a sequence of one-character strings.
EmptyNumber == <<>>

\* LLMParty
LLMParty(name, taxID, bankAccount, bankName) ==
    [Name |-> name, TaxID |-> taxID, Address |-> "", Phone |-> "", Email |-> "",
     BankAccount |-> bankAccount, BankName |-> bankName]

\* LLMLineItem
LLMLineItem(number, name, quantity, unitPrice, discountPercent, discountAmount, amount, vatRate, vatAmount, total) ==
    [Number |-> number, Code |-> "", Name |-> name, Description |-> "", Unit |-> "",
     Quantity |-> quantity, UnitPrice |-> unitPrice,
     DiscountPercent |-> discountPercent, DiscountAmount |-> discountAmount,
     Amount |-> amount, VATRate |-> vatRate, VATAmount |-> vatAmount,
     Total |-> total]

\* LLMResponse with every field absent from the JSON
ZeroResponse ==
    [InvoiceNumber |-> "", Series |-> "", Date |-> <<>>, Type |-> "",
     Seller |-> LLMParty("", "", "", ""), Buyer |-> LLMParty("", "", "", ""),
     Items |-> <<>>, Subtotal |-> EmptyNumber, TotalDiscount |-> EmptyNumber,
     TotalVAT |-> EmptyNumber, TotalAmount |-> EmptyNumber, Currency |-> "",
     PaymentMethod |-> "", Notes |-> "", DocumentType |-> "",
     ReceiptNumber |-> "", Cashier |-> "", TerminalID |-> "", Time |-> "",
     AmountTendered |-> EmptyNumber, Change |-> EmptyNumber]

----------------------------------------------------------------------------
(* Numeric literals (internal/llm/extractor.go, parseDecimal) *)

Digits == <<"0", "1", "2", "3", "4", "5", "6", "7", "8", "9">>
IsDigit(ch) == \E i \in 1..10 : Digits[i] = ch
DigitValue(ch) == (CHOOSE i \in 1..10 : Digits[i] = ch) - 1

\* strings.ReplaceAll(s, old, new) for a one-character old
RECURSIVE ReplaceAll(_, _, _)
ReplaceAll(s, old, new) ==
    IF s = <<>> THEN <<>>
    ELSE (IF Head(s) = old THEN new ELSE <<Head(s)>>) \o ReplaceAll(Tail(s), old, new)

\* value of a sequence of decimal digits
RECURSIVE DigitsToInt(_)
DigitsToInt(s) ==
    IF s = <<>> THEN 0
    ELSE 10 * DigitsToInt(SubSeq(s, 1, Len(s) - 1)) + DigitValue(s[Len(s)])

\* strconv.ParseInt(s, 10, 64): an optional sign, then one or more digits
ParseInt(s) ==
    LET signed == s # <<>> /\ Head(s) \in {"-", "+"}
        digits == IF signed THEN Tail(s) ELSE s
    IN  IF digits = <<>> \/ \E i \in 1..Len(digits) : ~IsDigit(digits[i])
        THEN [ok |-> FALSE, v |-> 0]
        ELSE [ok |-> TRUE,
              v |-> IF signed /\ Head(s) = "-" THEN -DigitsToInt(digits)
                    ELSE DigitsToInt(digits)]

\* decimal.NewFromString for literals without an exponent part: at most one
\* '.', and the remaining characters must parse as an integer
NewFromString(value) ==
    LET points == {i \in 1..Len(value) : value[i] = "."}
    IN  IF Cardinality(points) > 1 THEN [ok |-> FALSE, d |-> Zero]
        ELSE IF points = {}
        THEN LET r == ParseInt(value)
             IN  [ok |-> r.ok, d |-> Dec(r.v, 0)]
        ELSE LET pIndex == CHOOSE i \in points : TRUE
                 intString == SubSeq(value, 1, pIndex - 1)
                                  \o SubSeq(value, pIndex + 1, Len(value))
                 r == ParseInt(intString)
             IN  [ok |-> r.ok, d |-> IF r.ok THEN Dec(r.v, Len(value) - pIndex) ELSE Zero]

\* a variant of parseDecimal that keeps the '.' characters
parseDecimal_KeepsDots(n) ==
    IF n = EmptyNumber THEN Zero
    ELSE LET s == ReplaceAll(n, ",", <<".">>)
             r == NewFromString(s)
         IN  IF ~r.ok THEN Zero ELSE r.d

\* parseDecimal(n json.Number) decimal.Decimal
parseDecimal(n) ==
    IF n = EmptyNumber THEN Zero
    ELSE LET s == ReplaceAll(ReplaceAll(n, ".", <<>>), ",", <<".">>)
             r == NewFromString(s)
         IN  IF ~r.ok THEN Zero ELSE r.d

\* characters of the literals handed to parseDecimal; "x" stands for any
\* character that is not a digit, a sign or a separator
TokenChars == {"0", "1", "5", ".", ",", "-", "x"}
Tokens == SeqsUpTo(TokenChars, MaxTokenLen)

----------------------------------------------------------------------------
(* The response normalizer (internal/llm/extractor.go, convertToInvoice) *)

ProviderUnknown == "UNKNOWN"
InvoiceTypeNormal == "Normal"
InvoiceTypeReplacement == "Replacement"
InvoiceTypeAdjustment == "Adjustment"
DocumentTypeInvoice == "invoice"
DocumentTypeReceipt == "receipt"

\* strings.ToLower on the type names the model uses; other strings of the
\* model are already lower case
ToLower(s) ==
    CASE s \in {"Replacement", "REPLACEMENT"} -> "replacement"
      [] s \in {"Adjustment", "ADJUSTMENT"} -> "adjustment"
      [] s \in {"Normal", "NORMAL"} -> "normal"
      [] s \in {"Receipt", "RECEIPT"} -> "receipt"
      [] s \in {"Invoice", "INVOICE"} -> "invoice"
      [] OTHER -> s

parseInvoiceType(s) ==
    CASE ToLower(s) = "replacement" -> InvoiceTypeReplacement
      [] ToLower(s) = "adjustment" -> InvoiceTypeAdjustment
      [] OTHER -> InvoiceTypeNormal

parseDocumentType(s) ==
    CASE ToLower(s) = "receipt" -> DocumentTypeReceipt
      [] OTHER -> DocumentTypeInvoice

\* strings.TrimSpace
RECURSIVE TrimSpace(_)
TrimSpace(s) ==
    IF s = <<>> THEN s
    ELSE IF Head(s) = " " THEN TrimSpace(Tail(s))
    ELSE IF s[Len(s)] = " " THEN TrimSpace(SubSeq(s, 1, Len(s) - 1))
    ELSE s

IsLeapYear(y) == (y % 4 = 0 /\ y % 100 # 0) \/ y % 400 = 0
DaysIn(m, y) ==
    CASE m \in {4, 6, 9, 11} -> 30
      [] m = 2 -> IF IsLeapYear(y) THEN 29 ELSE 28
      [] OTHER -> 31

\* The date layouts of parseDate, in order: the separator, whether the year
\* comes first, and whether day and month need two digits.  time.RFC3339,
\* the last layout of the source, needs a time-of-day part, which the date
\* texts of the model do not carry.
DateLayouts ==
    << [sep |-> "-", yearFirst |-> TRUE, twoDigits |-> TRUE],
       [sep |-> "/", yearFirst |-> FALSE, twoDigits |-> TRUE],
       [sep |-> "/", yearFirst |-> FALSE, twoDigits |-> FALSE],
       [sep |-> "-", yearFirst |-> FALSE, twoDigits |-> TRUE] >>

\* time.Parse(layout, s) for one of DateLayouts
ParseLayout(layout, s) ==
    LET seps == {i \in 1..Len(s) : s[i] = layout.sep}
        failed == [ok |-> FALSE, t |-> ZeroDate]
    IN  IF Cardinality(seps) # 2 THEN failed
        ELSE LET i1 == CHOOSE i \in seps : \A j \in seps : i <= j
                 i2 == CHOOSE i \in seps : \A j \in seps : j <= i
                 f1 == SubSeq(s, 1, i1 - 1)
                 f2 == SubSeq(s, i1 + 1, i2 - 1)
                 f3 == SubSeq(s, i2 + 1, Len(s))
                 yy == IF layout.yearFirst THEN f1 ELSE f3
                 dd == IF layout.yearFirst THEN f3 ELSE f1
                 short(f) == IF layout.twoDigits THEN Len(f) = 2 ELSE Len(f) \in {1, 2}
                 digits(f) == \A i \in 1..Len(f) : IsDigit(f[i])
             IN  IF /\ digits(f1) /\ digits(f2) /\ digits(f3)
                    /\ Len(yy) = 4 /\ short(f2) /\ short(dd)
                    /\ DigitsToInt(f2) \in 1..12
                    /\ DigitsToInt(dd) \in 1..DaysIn(DigitsToInt(f2), DigitsToInt(yy))
                 THEN [ok |-> TRUE,
                       t |-> <<DigitsToInt(yy), DigitsToInt(f2), DigitsToInt(dd)>>]
                 ELSE failed

\* parseDate(s): the first layout that parses
parseDate(s) ==
    LET t == TrimSpace(s)
        parsing == {i \in 1..Len(DateLayouts) : ParseLayout(DateLayouts[i], t).ok}
    IN  IF parsing = {} THEN [ok |-> FALSE, t |-> ZeroDate]
        ELSE ParseLayout(DateLayouts[CHOOSE i \in parsing : \A j \in parsing : i <= j], t)

\* Decimal.IntPart: the integer part, truncated toward zero
IntPart(d) == QuoTrunc(d.c, Pow10(d.e))

\* a variant of the line-item conversion that falls back to the 10% rate
convertLineItem_DefaultsTo10(item) ==
    LET rate == parseDecimal(item.VATRate)
    IN  [Number |-> item.Number, Code |-> item.Code, Name |-> item.Name,
         Description |-> item.Description, Unit |-> item.Unit,
         Quantity |-> parseDecimal(item.Quantity),
         UnitPrice |-> parseDecimal(item.UnitPrice),
         Discount |-> parseDecimal(item.DiscountPercent),
         VATRate |-> IF ~IsZero(rate) THEN IntPart(rate) ELSE 10,
         Amount |-> parseDecimal(item.Amount),
         DiscountAmt |-> parseDecimal(item.DiscountAmount),
         VATAmount |-> parseDecimal(item.VATAmount),
         Total |-> parseDecimal(item.Total)]

\* convertToInvoice: the body of the loop over resp.Items
convertLineItem(item) ==
    LET rate == parseDecimal(item.VATRate)
    IN  [Number |-> item.Number, Code |-> item.Code, Name |-> item.Name,
         Description |-> item.Description, Unit |-> item.Unit,
         Quantity |-> parseDecimal(item.Quantity),
         UnitPrice |-> parseDecimal(item.UnitPrice),
         Discount |-> parseDecimal(item.DiscountPercent),
         VATRate |-> IF ~IsZero(rate) THEN IntPart(rate) ELSE 0,
         Amount |-> parseDecimal(item.Amount),
         DiscountAmt |-> parseDecimal(item.DiscountAmount),
         VATAmount |-> parseDecimal(item.VATAmount),
         Total |-> parseDecimal(item.Total)]

\* (e *Extractor) convertToInvoice(resp *LLMResponse)
convertToInvoice(r) ==
    LET docNumber == IF r.InvoiceNumber = "" THEN r.ReceiptNumber ELSE r.InvoiceNumber
        date == parseDate(r.Date)
    IN  [Number |-> docNumber,
         Series |-> r.Series,
         Date |-> IF r.Date # <<>> /\ date.ok THEN date.t ELSE ZeroDate,
         Type |-> parseInvoiceType(r.Type),
         Provider |-> ProviderUnknown,
         Seller |-> [Name |-> r.Seller.Name, TaxID |-> r.Seller.TaxID,
                     Address |-> r.Seller.Address, Phone |-> r.Seller.Phone,
                     Email |-> r.Seller.Email, BankAccount |-> r.Seller.BankAccount,
                     BankName |-> r.Seller.BankName],
         Buyer |-> [Name |-> r.Buyer.Name, TaxID |-> r.Buyer.TaxID,
                    Address |-> r.Buyer.Address, Phone |-> r.Buyer.Phone,
                    Email |-> r.Buyer.Email, BankAccount |-> "", BankName |-> ""],
         Items |-> [i \in DOMAIN r.Items |-> convertLineItem(r.Items[i])],
         SubtotalAmount |-> parseDecimal(r.Subtotal),
         TaxAmount |-> parseDecimal(r.TotalVAT),
         TotalAmount |-> parseDecimal(r.TotalAmount),
         Currency |-> IF r.Currency = "" THEN "VND" ELSE r.Currency,
         Remarks |-> r.Notes,
         DocumentType |-> parseDocumentType(r.DocumentType),
         Cashier |-> r.Cashier,
         TerminalID |-> r.TerminalID,
         PaymentMethod |-> r.PaymentMethod,
         ReceiptNumber |-> r.ReceiptNumber,
         ReceiptTime |-> r.Time,
         AmountTendered |-> parseDecimal(r.AmountTendered),
         Change |-> parseDecimal(r.Change)]

\* Literals the model may write in the numeric fields of a line item
QuantityTokens == {<<"2">>, <<"1", ",", "5">>, <<"x">>}
UnitPriceTokens == {<<"5">>, <<"1", ".", "0", "0", "0">>, EmptyNumber}
DiscountPercentTokens == {EmptyNumber, <<"1", "0">>}
DiscountAmountTokens == {EmptyNumber, <<"1">>}
AmountTokens == {<<"1", "0">>, <<"1", "1">>, EmptyNumber}
VATAmountTokens == {<<"1">>, EmptyNumber}
TotalTokens == {<<"1", "1">>, <<"1", "2">>, EmptyNumber}
\* and in vat_rate: absent, unparsable, zero, the three legal rates, and
\* other rates with '.' or ',' in them
VATRateTokens ==
    {EmptyNumber, <<"x">>, <<"0">>, <<"0", ",", "0">>, <<"5">>, <<"1", "0">>,
     <<"8">>, <<"7", ",", "5">>, <<"0", ",", "5">>, <<"7", ".", "5">>,
     <<"0", ".", "5">>, <<"-", "5">>}

ResponseItems ==
    {LLMLineItem(1, "item", q, p, dp, da, a, r, va, tt) :
        q \in QuantityTokens, p \in UnitPriceTokens, dp \in DiscountPercentTokens,
        da \in DiscountAmountTokens, a \in AmountTokens, r \in VATRateTokens,
        va \in VATAmountTokens, tt \in TotalTokens}

ResponseOf(items) ==
    [ZeroResponse EXCEPT !.InvoiceNumber = "0000123", !.Items = items,
                         !.TotalAmount = <<"1", "1">>]

\* responses handed to convertToInvoice: no item, one item of every kind,
\* and two items with different rates
InputResponses ==
    {ResponseOf(<<>>)}
        \cup {ResponseOf(<<item>>) : item \in ResponseItems}
        \cup {ResponseOf(<<LLMLineItem(1, "a", <<"2">>, <<"5">>, EmptyNumber, EmptyNumber,
                                       <<"1", "0">>, r1, <<"1">>, <<"1", "1">>),
                           LLMLineItem(2, "b", <<"2">>, <<"5">>, EmptyNumber, EmptyNumber,
                                       <<"1", "0">>, r2, EmptyNumber, <<"1", "0">>)>>) :
                    r1 \in VATRateTokens, r2 \in VATRateTokens}

----------------------------------------------------------------------------
(* Serialising a canonical invoice to the normalizer's JSON.  The repository *)
(* has no such serialiser in its sources; this one follows the wire schema   *)
(* of the LLMResponse struct and writes numbers the Vietnamese way: '.'      *)
(* between groups of three integer digits, ',' before the fraction.          *)

\* the decimal digits of n >= 0, at least width of them
RECURSIVE IntToDigits(_, _)
IntToDigits(n, width) ==
    IF n < 10 /\ width <= 1 THEN <<Digits[n + 1]>>
    ELSE Append(IntToDigits(n \div 10, width - 1), Digits[(n % 10) + 1])

\* digits with a '.' before every group of three counted from the right
RECURSIVE GroupThousands(_)
GroupThousands(digits) ==
    IF Len(digits) <= 3 THEN digits
    ELSE GroupThousands(SubSeq(digits, 1, Len(digits) - 3))
             \o <<".">> \o SubSeq(digits, Len(digits) - 2, Len(digits))

FormatDecimal(d) ==
    LET whole == Abs(d.c) \div Pow10(d.e)
        fraction == Abs(d.c) % Pow10(d.e)
    IN  (IF d.c < 0 THEN <<"-">> ELSE <<>>)
            \o GroupThousands(IntToDigits(whole, 1))
            \o (IF d.e > 0 THEN <<",">> \o IntToDigits(fraction, d.e) ELSE <<>>)

\* the calendar day as YYYY-MM-DD
FormatDate(day) ==
    IntToDigits(day[1], 4) \o <<"-">> \o IntToDigits(day[2], 2)
        \o <<"-">> \o IntToDigits(day[3], 2)

SerializeItem(item) ==
    [Number |-> item.Number, Code |-> item.Code, Name |-> item.Name,
     Description |-> item.Description, Unit |-> item.Unit,
     Quantity |-> FormatDecimal(item.Quantity),
     UnitPrice |-> FormatDecimal(item.UnitPrice),
     DiscountPercent |-> FormatDecimal(item.Discount),
     DiscountAmount |-> FormatDecimal(item.DiscountAmt),
     Amount |-> FormatDecimal(item.Amount),
     VATRate |-> FormatDecimal(NewFromInt(item.VATRate)),
     VATAmount |-> FormatDecimal(item.VATAmount),
     Total |-> FormatDecimal(item.Total)]

Serialize(doc) ==
    [InvoiceNumber |-> doc.Number,
     Series |-> doc.Series,
     Date |-> FormatDate(doc.Date),
     Type |-> doc.Type,
     Seller |-> doc.Seller,
     Buyer |-> doc.Buyer,
     Items |-> [i \in DOMAIN doc.Items |-> SerializeItem(doc.Items[i])],
     Subtotal |-> FormatDecimal(doc.SubtotalAmount),
     TotalDiscount |-> EmptyNumber,
     TotalVAT |-> FormatDecimal(doc.TaxAmount),
     TotalAmount |-> FormatDecimal(doc.TotalAmount),
     Currency |-> doc.Currency,
     PaymentMethod |-> doc.PaymentMethod,
     Notes |-> doc.Remarks,
     DocumentType |-> doc.DocumentType,
     ReceiptNumber |-> doc.ReceiptNumber,
     Cashier |-> doc.Cashier,
     TerminalID |-> doc.TerminalID,
     Time |-> doc.ReceiptTime,
     AmountTendered |-> FormatDecimal(doc.AmountTendered),
     Change |-> FormatDecimal(doc.Change)]

\* Canonical invoices: calculated line items with a legal rate and no prior
\* DiscountAmt, totals from CalculateTotals, and header, parties and receipt
\* fields filled in.
CanonicalItems ==
    {item \in ItemSamples : item.VATRate \in {0, 5, 10} /\ IsZero(item.DiscountAmt)}
        \cup {LineItem(Dec(5, 0), Dec(1000, 0), Dec(25, 1), 10, Zero)}

Providers == {"TCT", "VNPT", ProviderUnknown}
BuyerBankAccounts == {"", "0011000123456"}
InvoiceDates == {<<2024, 2, 29>>, <<2023, 12, 1>>}

CanonicalInvoices ==
    {CalculateTotals(
        [InvoiceOf(items) EXCEPT
            !.Series = "1C24TAA",
            !.Date = day,
            !.Type = type,
            !.Provider = provider,
            !.Seller = Party("Cong ty A", "0101234567", "0011000654321", "VCB"),
            !.Buyer = Party("Cong ty B", "0309876543", account,
                            IF account = "" THEN "" ELSE "VCB"),
            !.DocumentType = docType,
            !.PaymentMethod = "cash",
            !.ReceiptNumber = IF docType = DocumentTypeReceipt THEN "R-17" ELSE "",
            !.AmountTendered = IF docType = DocumentTypeReceipt THEN Dec(2000, 0) ELSE Zero]) :
        items \in SeqsUpTo(CanonicalItems, MaxCanonicalItems),
        day \in InvoiceDates,
        type \in {InvoiceTypeNormal, InvoiceTypeReplacement},
        provider \in Providers,
        account \in BuyerBankAccounts,
        docType \in {DocumentTypeInvoice, DocumentTypeReceipt}}

----------------------------------------------------------------------------
(* The printability filter of the PDF text miner (isPrintableText) *)

\* A string is the sequence of its runes (code points).  RuneLen is the number
\* of bytes of a rune in UTF-8, ByteLen the len() of the string.
RuneLen(r) ==
    IF r < 128 THEN 1
    ELSE IF r < 2048 THEN 2
    ELSE IF r < 65536 THEN 3
    ELSE 4

RECURSIVE ByteLen(_)
ByteLen(s) == IF s = <<>> THEN 0 ELSE RuneLen(Head(s)) + ByteLen(Tail(s))

\* the allow-list: ASCII letters and digits, space . , : - / and the
\* Latin-extended (U+00C0..U+024F) and Vietnamese (U+1E00..U+1EFF) ranges
IsPrintableRune(r) ==
    \/ r \in 97..122
    \/ r \in 65..90
    \/ r \in 48..57
    \/ r \in {32, 46, 44, 58, 45, 47}
    \/ r \in 192..591
    \/ r \in 7680..7935

RECURSIVE PrintableCount(_)
PrintableCount(s) ==
    IF s = <<>> THEN 0
    ELSE (IF IsPrintableRune(Head(s)) THEN 1 ELSE 0) + PrintableCount(Tail(s))

\* isPrintableText(s): float64(printable)/float64(len(s)) > 0.5
isPrintableText(s) ==
    IF ByteLen(s) = 0 THEN FALSE
    ELSE 2 * PrintableCount(s) > ByteLen(s)

\* runes of the candidate strings: 'a', ' ', '#' (one byte each), U+00E9 (two
\* bytes, allowed), U+1EC7 (three bytes, allowed) and U+20AC (three bytes,
\* not allowed)
RuneSamples == {97, 32, 35, 233, 7879, 8364}
RuneStrings == SeqsUpTo(RuneSamples, MaxRunes)

----------------------------------------------------------------------------
(* The string-extraction heuristic (extractTextFromContentStream) *)

\* A content stream is the sequence of its characters' code points; the
\* streams of the model are ASCII, where bytes and runes coincide.

\* smallest index j >= i with s[j] = ch, or 0
RECURSIVE IndexFrom(_, _, _)
IndexFrom(s, ch, i) ==
    IF i > Len(s) THEN 0
    ELSE IF s[i] = ch THEN i
    ELSE IndexFrom(s, ch, i + 1)

\* reParens.FindAllStringSubmatch(s[i..], -1) for \(([^)]*)\) : the
\* submatches of the leftmost, non-overlapping matches
RECURSIVE reParens(_, _)
reParens(s, i) ==
    LET a == IndexFrom(s, 40, i)                              \* '('
        b == IF a = 0 THEN 0 ELSE IndexFrom(s, 41, a + 1)     \* ')'
    IN  IF b = 0 THEN <<>>
        ELSE <<SubSeq(s, a + 1, b - 1)>> \o reParens(s, b + 1)

\* [0-9A-Fa-f]
IsHexDigit(c) == c \in 48..57 \/ c \in 65..70 \/ c \in 97..102
HexValue(c) ==
    IF c \in 48..57 THEN c - 48
    ELSE IF c \in 65..70 THEN c - 55
    ELSE c - 87

\* index of the last character of the run of hex digits that starts at i
\* (i - 1 when there is none)
RECURSIVE HexRunEnd(_, _)
HexRunEnd(s, i) ==
    IF i <= Len(s) /\ IsHexDigit(s[i]) THEN HexRunEnd(s, i + 1) ELSE i - 1

\* reHex.FindAllStringSubmatch(s[i..], -1) for <([0-9A-Fa-f]+)>
RECURSIVE reHex(_, _)
reHex(s, i) ==
    LET a == IndexFrom(s, 60, i)                              \* '<'
        z == HexRunEnd(s, a + 1)
    IN  IF a = 0 THEN <<>>
        ELSE IF z > a /\ z < Len(s) /\ s[z + 1] = 62          \* '>'
        THEN <<SubSeq(s, a + 1, z)>> \o reHex(s, z + 2)
        ELSE reHex(s, a + 1)

\* strings.ReplaceAll(s, old, new) for a two-character old
RECURSIVE ReplacePairs(_, _, _)
ReplacePairs(s, old, new) ==
    IF Len(s) < 2 THEN s
    ELSE IF SubSeq(s, 1, 2) = old
    THEN new \o ReplacePairs(SubSeq(s, 3, Len(s)), old, new)
    ELSE <<Head(s)>> \o ReplacePairs(Tail(s), old, new)

\* unescapePDFString: \n \r \t \( \) \\ in this order
unescapePDFString(s) ==
    LET s1 == ReplacePairs(s, <<92, 110>>, <<10>>)
        s2 == ReplacePairs(s1, <<92, 114>>, <<13>>)
        s3 == ReplacePairs(s2, <<92, 116>>, <<9>>)
        s4 == ReplacePairs(s3, <<92, 40>>, <<40>>)
        s5 == ReplacePairs(s4, <<92, 41>>, <<41>>)
    IN  ReplacePairs(s5, <<92, 92>>, <<92>>)

\* hexToString: one byte for every two digits, a last odd digit dropped
RECURSIVE hexToString(_)
hexToString(hex) ==
    IF Len(hex) < 2 THEN <<>>
    ELSE <<16 * HexValue(hex[1]) + HexValue(hex[2])>> \o hexToString(SubSeq(hex, 3, Len(hex)))

\* unicode.IsSpace on the characters of the model: space, \t, \n, \r
IsSpaceRune(c) == c \in {32, 9, 10, 13}

\* strings.TrimSpace on a sequence of code points
RECURSIVE TrimSpaceRunes(_)
TrimSpaceRunes(s) ==
    IF s = <<>> THEN s
    ELSE IF IsSpaceRune(Head(s)) THEN TrimSpaceRunes(Tail(s))
    ELSE IF IsSpaceRune(s[Len(s)]) THEN TrimSpaceRunes(SubSeq(s, 1, Len(s) - 1))
    ELSE s

\* the loop over the matches: each retained text, then a space
RECURSIVE WriteRetained(_, _)
WriteRetained(texts, n) ==
    IF n = 0 THEN <<>>
    ELSE WriteRetained(texts, n - 1)
             \o (IF isPrintableText(texts[n]) THEN texts[n] \o <<32>> ELSE <<>>)

\* the decoded candidates of the two scans
LiteralTexts(content) ==
    LET m == reParens(content, 1) IN [k \in DOMAIN m |-> unescapePDFString(m[k])]
HexTexts(content) ==
    LET m == reHex(content, 1) IN [k \in DOMAIN m |-> hexToString(m[k])]

\* a variant of extractTextFromContentStream that scans the hex strings first
extractTextFromContentStream_HexFirst(content) ==
    TrimSpaceRunes(WriteRetained(HexTexts(content), Len(HexTexts(content)))
                       \o WriteRetained(LiteralTexts(content), Len(LiteralTexts(content))))

\* extractTextFromContentStream(content)
extractTextFromContentStream(content) ==
    TrimSpaceRunes(WriteRetained(LiteralTexts(content), Len(LiteralTexts(content)))
                       \o WriteRetained(HexTexts(content), Len(HexTexts(content))))

\* pieces of content streams: (a)  ( b)  (#)  (cc\t)  <41>  <23>  <4>  x  (
StreamPieces ==
    {<<40, 97, 41>>, <<40, 32, 98, 41>>, <<40, 35, 41>>, <<40, 99, 99, 92, 116, 41>>,
     <<60, 52, 49, 62>>, <<60, 50, 51, 62>>, <<60, 52, 62>>, <<120>>, <<40>>}

RECURSIVE Concat(_)
Concat(ss) == IF ss = <<>> THEN <<>> ELSE Head(ss) \o Concat(Tail(ss))

ContentStreams == {Concat(ps) : ps \in SeqsUpTo(StreamPieces, MaxPieces)}

----------------------------------------------------------------------------
(* Format detection (internal/processor/pipeline.go, DetectFormat) *)

\* Format, by its String()
FormatUnknown == "unknown"
FormatXML == "xml"
FormatPDF == "pdf"
FormatImage == "image"

XMLDeclaration == <<60, 63, 120, 109, 108>>     \* "<?xml"
PNGMagic == <<137, 80, 78, 71>>
JPEGMagic == <<255, 216, 255>>
TIFFLittleEndianMagic == <<73, 73, 42, 0>>
TIFFBigEndianMagic == <<77, 77, 0, 42>>

min(a, b) == IF a < b THEN a ELSE b

\* a variant of contains that looks at the start of s only
contains_AtStart(s, substr) == HasPrefix(s, substr)

\* contains(s, substr): substr occurs in s
contains(s, substr) ==
    \E i \in 0..(Len(s) - Len(substr)) : SubSeq(s, i + 1, i + Len(substr)) = substr

\* a variant of DetectFormat that does not know big-endian TIFF
DetectFormat_NoBigEndianTIFF(d) ==
    IF Len(d) = 0 THEN FormatUnknown
    ELSE IF Len(d) > 5
            /\ LET header == SubSeq(d, 1, min(100, Len(d)))
               IN  header[1] = 60 \/ contains(header, XMLDeclaration)
    THEN FormatXML
    ELSE IF Len(d) >= 4 /\ SubSeq(d, 1, 4) = PDFMagic THEN FormatPDF
    ELSE IF Len(d) >= 8
            /\ \/ d[1] = 137 /\ d[2] = 80 /\ d[3] = 78 /\ d[4] = 71
               \/ d[1] = 255 /\ d[2] = 216 /\ d[3] = 255
               \/ d[1] = 73 /\ d[2] = 73 /\ d[3] = 42 /\ d[4] = 0
    THEN FormatImage
    ELSE FormatUnknown

\* DetectFormat(data []byte) Format
DetectFormat(d) ==
    IF Len(d) = 0 THEN FormatUnknown
    ELSE IF Len(d) > 5
            /\ LET header == SubSeq(d, 1, min(100, Len(d)))
               IN  header[1] = 60 \/ contains(header, XMLDeclaration)
    THEN FormatXML
    ELSE IF Len(d) >= 4 /\ SubSeq(d, 1, 4) = PDFMagic THEN FormatPDF
    ELSE IF Len(d) >= 8
            /\ \/ d[1] = 137 /\ d[2] = 80 /\ d[3] = 78 /\ d[4] = 71
               \/ d[1] = 255 /\ d[2] = 216 /\ d[3] = 255
               \/ d[1] = 73 /\ d[2] = 73 /\ d[3] = 42 /\ d[4] = 0
               \/ d[1] = 77 /\ d[2] = 77 /\ d[3] = 0 /\ d[4] = 42
    THEN FormatImage
    ELSE FormatUnknown

\* Inputs of DetectFormat: some spaces, then a core, then up to MaxTail
\* bytes 'A'.  With 95 spaces in front "<?xml" ends at byte 100, with 96 it
\* ends at byte 101.
Spaces(n) == [i \in 1..n |-> 32]
Letters(n) == [i \in 1..n |-> 65]
PadLengths == {0, 1, 95, 96}
FormatCores ==
    {<<>>, <<60>>, <<60, 97, 47, 62>>, XMLDeclaration, PDFMagic,
     PDFMagic \o XMLDeclaration, PNGMagic, JPEGMagic, TIFFLittleEndianMagic,
     TIFFBigEndianMagic, <<120>>}
FormatInputs ==
    {Spaces(n) \o core \o Letters(k) :
        n \in PadLengths, core \in FormatCores, k \in 0..MaxTail}

----------------------------------------------------------------------------
(* Label-proximity lookup (ExtractedText.FindNear, isLabel) *)

\* unicode.ToLower on the letters of the model's texts (ASCII and Latin-1)
ToLowerRune(c) ==
    IF c \in 65..90 \/ (c \in 192..222 /\ c # 215) THEN c + 32 ELSE c
ToLowerRunes(s) == [k \in DOMAIN s |-> ToLowerRune(s[k])]

\* strings.Split(s, "\n")
RECURSIVE SplitLines(_)
SplitLines(s) ==
    LET k == IndexFrom(s, 10, 1)
    IN  IF k = 0 THEN <<s>>
        ELSE <<SubSeq(s, 1, k - 1)>> \o SplitLines(SubSeq(s, k + 1, Len(s)))

\* the known field tokens of isLabel: "mã số thuế", "tax id", "taxid",
\* "số hóa đơn", "invoice no", "invoice number", "ngày", "date", "tên", "name",
\* "địa chỉ", "address"
labels ==
    {<<109, 227, 32, 115, 7889, 32, 116, 104, 117, 7871>>,
     <<116, 97, 120, 32, 105, 100>>,
     <<116, 97, 120, 105, 100>>,
     <<115, 7889, 32, 104, 243, 97, 32, 273, 417, 110>>,
     <<105, 110, 118, 111, 105, 99, 101, 32, 110, 111>>,
     <<105, 110, 118, 111, 105, 99, 101, 32, 110, 117, 109, 98, 101, 114>>,
     <<110, 103, 224, 121>>,
     <<100, 97, 116, 101>>,
     <<116, 234, 110>>,
     <<110, 97, 109, 101>>,
     <<273, 7883, 97, 32, 99, 104, 7881>>,
     <<97, 100, 100, 114, 101, 115, 115>>}

\* the length under which a line with a field token looks like a label
LabelMaxLen == 50

\* a variant of isLabel that measures the line in characters
isLabel_CountsRunes(v) ==
    LET s == TrimSpaceRunes(v) IN
    \/ (Len(s) > 0 /\ s[Len(s)] = 58)
    \/ \E label \in labels : contains(ToLowerRunes(s), label) /\ Len(s) < LabelMaxLen

\* isLabel(s): len(s) is the number of bytes
isLabel(v) ==
    LET s == TrimSpaceRunes(v) IN
    \/ (Len(s) > 0 /\ s[Len(s)] = 58)                        \* HasSuffix(s, ":")
    \/ \E label \in labels : contains(ToLowerRunes(s), label) /\ ByteLen(s) < LabelMaxLen

\* the inner loop of FindNear from j on: the first of lines[i+j..i+maxDistance]
\* that is neither blank nor a label, trimmed
RECURSIVE NextLinesValue(_, _, _, _)
NextLinesValue(lines, i, j, maxDistance) ==
    IF ~(j <= maxDistance /\ i + j <= Len(lines)) THEN <<>>
    ELSE LET value == TrimSpaceRunes(lines[i + j])
         IN  IF value # <<>> /\ ~isLabel(value) THEN value
             ELSE NextLinesValue(lines, i, j + 1, maxDistance)

\* the body of the outer loop for line i: the value found, or ""
LineValue(lines, i, label, maxDistance) ==
    IF ~contains(ToLowerRunes(lines[i]), ToLowerRunes(label)) THEN <<>>
    ELSE LET idx == IndexFrom(lines[i], 58, 1)                \* strings.Index(line, ":")
             value == IF idx = 0 THEN <<>>
                      ELSE TrimSpaceRunes(SubSeq(lines[i], idx + 1, Len(lines[i])))
         IN  IF value # <<>> THEN value
             ELSE NextLinesValue(lines, i, 1, maxDistance)

\* the outer loop of FindNear from line i on
RECURSIVE FindNearFrom(_, _, _, _)
FindNearFrom(lines, i, label, maxDistance) ==
    IF i > Len(lines) THEN <<>>
    ELSE IF LineValue(lines, i, label, maxDistance) # <<>>
    THEN LineValue(lines, i, label, maxDistance)
    ELSE FindNearFrom(lines, i + 1, label, maxDistance)

\* (et *ExtractedText) FindNear(label, maxDistance)
FindNear(RawText, label, maxDistance) ==
    FindNearFrom(SplitLines(RawText), 1, label, maxDistance)

\* n times the character c
Pad(c, n) == [k \in 1..n |-> c]

\* Lines of mined text: "Date: 7", "Date", "Date:", "1:2 date", "", " 42 ",
\* "Name", "Sum:", "tên" followed by 23 "ê" (26 characters, 50 bytes), and
\* "name" followed by 46 "x" (50 characters, 50 bytes)
LineSamples ==
    {<<68, 97, 116, 101, 58, 32, 55>>,
     <<68, 97, 116, 101>>,
     <<68, 97, 116, 101, 58>>,
     <<49, 58, 50, 32, 100, 97, 116, 101>>,
     <<>>,
     <<32, 52, 50, 32>>,
     <<78, 97, 109, 101>>,
     <<83, 117, 109, 58>>,
     <<116, 234, 110>> \o Pad(234, 23),
     <<110, 97, 109, 101>> \o Pad(120, 46)}

\* strings.Join(lines, "\n")
RECURSIVE JoinLines(_)
JoinLines(lines) ==
    IF lines = <<>> THEN <<>>
    ELSE IF Len(lines) = 1 THEN lines[1]
    ELSE lines[1] \o <<10>> \o JoinLines(Tail(lines))

\* the labels looked for: "DATE" and "name"
LabelSamples == {<<68, 65, 84, 69>>, <<110, 97, 109, 101>>}

FindNearInputs ==
    [RawText : {JoinLines(ls) : ls \in SeqsUpTo(LineSamples, MaxLines)},
     label : LabelSamples,
     maxDistance : 0..MaxDistance]

----------------------------------------------------------------------------
(* Idle values of the parts a specification does not exercise *)

PipelineIdle ==
    /\ llmExtractor = "nil"
    /\ pc = "idle"
    /\ op = ""
    /\ ctx = "live"
    /\ data = <<>>
    /\ mimeType = ""
    /\ textResult = ZeroResult
    /\ visionResult = ZeroResult
    /\ images = <<>>
    /\ imageData = <<>>
    /\ imageMimeType = ""
    /\ result = ZeroResult
    /\ log = <<>>

CalcIdle ==
    /\ li = IdleLineItem
    /\ liBefore = IdleLineItem
    /\ calcCalls = 0

InvIdle ==
    /\ resp = ZeroResponse
    /\ invoice = ZeroInvoice
    /\ invBefore = ZeroInvoice
    /\ invOps = <<>>

FnIdle ==
    /\ fnArg = <<>>
    /\ fnRet = <<>>
    /\ fnDone = FALSE

----------------------------------------------------------------------------
(* Pipeline actions *)

Fresh ==
    /\ textResult' = ZeroResult
    /\ visionResult' = ZeroResult
    /\ images' = <<>>
    /\ imageData' = <<>>
    /\ imageMimeType' = ""
    /\ log' = <<>>

\* ProcessXML(ctx, r): reads r, then ProcessXMLBytes
ProcessXML ==
    /\ pc = "idle"
    /\ \E c \in CtxStates, r \in Readers \ {NilReader} :
         /\ op' = "ProcessXML"
         /\ ctx' = c
         /\ mimeType' = ""
         /\ Fresh
         /\ IF r.kind = "fail"
            THEN /\ data' = <<>>
                 /\ result' = ErrorResult(Wrap("failed to read XML", ReadError), <<>>)
                 /\ pc' = "done"
            ELSE /\ data' = r.content
                 /\ result' = ZeroResult
                 /\ pc' = "xml_parse"
    /\ UNCHANGED <<llmExtractor, calcVars, invVars, fnVars>>

\* ProcessXMLBytes(ctx, data)
ProcessXMLBytes ==
    /\ pc = "idle"
    /\ \E c \in CtxStates, d \in DataSamples :
         /\ op' = "ProcessXMLBytes"
         /\ ctx' = c
         /\ data' = d
    /\ mimeType' = ""
    /\ Fresh
    /\ result' = ZeroResult
    /\ pc' = "xml_parse"
    /\ UNCHANGED <<llmExtractor, calcVars, invVars, fnVars>>

\* a variant of XMLParse that falls back to the vision stage on a parse failure
XMLParse_FallsBack ==
    /\ pc = "xml_parse"
    /\ \E out \in XMLParseOutcomes :
         /\ log' = Append(log, Event("xmlRegistry.Parse", out))
         /\ IF out = "err" /\ llmExtractor # "nil"
            THEN result' = result /\ pc' = "vision"
            ELSE result' = ProcessXMLBytesResult(out) /\ pc' = "done"
    /\ UNCHANGED <<llmExtractor, op, ctx, data, mimeType, textResult, visionResult,
                   images, imageData, imageMimeType, calcVars, invVars, fnVars>>

\* p.xmlRegistry.Parse(ctx, data) and the return of ProcessXMLBytes
XMLParse ==
    /\ pc = "xml_parse"
    /\ \E out \in XMLParseOutcomes :
         /\ log' = Append(log, Event("xmlRegistry.Parse", out))
         /\ result' = ProcessXMLBytesResult(out)
    /\ pc' = "done"
    /\ UNCHANGED <<llmExtractor, op, ctx, data, mimeType, textResult, visionResult,
                   images, imageData, imageMimeType, calcVars, invVars, fnVars>>

\* ProcessPDF(ctx, r, imageData, mimeType) up to the text stage
ProcessPDF ==
    /\ pc = "idle"
    /\ \E c \in CtxStates, r \in Readers, img \in DataSamples, m \in MimeTypes :
         /\ op' = "ProcessPDF"
         /\ ctx' = c
         /\ mimeType' = m
         /\ pc' = ProcessPDFEntry(r, img).pc
         /\ data' = ProcessPDFEntry(r, img).data
         /\ result' = ProcessPDFEntry(r, img).result
    /\ Fresh
    /\ UNCHANGED <<llmExtractor, calcVars, invVars, fnVars>>

\* a variant of TextExtract that sends empty mined text to the model
TextExtract_ModelOnEmptyText ==
    /\ pc = "text_extract"
    /\ \E m \in MinerRuns :
         LET ex == ExtractBytes(m) IN
         IF ex.err # NoError
         THEN /\ log' = Append(log, Event("pdfExtractor.ExtractBytes", "err"))
              /\ textResult' = tryLLMTextExtractionNoText(ex)
              /\ result' = result
              /\ pc' = "vision"
         ELSE /\ log' = Append(log, Event("pdfExtractor.ExtractBytes",
                                          IF ex.RawText = "" THEN "empty" ELSE "text"))
              /\ textResult' = textResult
              /\ result' = result
              /\ pc' = "text_llm"
    /\ UNCHANGED <<llmExtractor, op, ctx, data, mimeType, visionResult,
                   images, imageData, imageMimeType, calcVars, invVars, fnVars>>

\* tryLLMTextExtraction: p.pdfExtractor.ExtractBytes(ctx, pdfData)
TextExtract ==
    /\ pc = "text_extract"
    /\ \E m \in MinerRuns :
         LET ex == ExtractBytes(m) IN
         IF ex.err # NoError \/ ex.RawText = ""
         THEN /\ log' = Append(log, Event("pdfExtractor.ExtractBytes",
                                          IF ex.err # NoError THEN "err" ELSE "empty"))
              /\ textResult' = tryLLMTextExtractionNoText(ex)
              /\ IF TextStageWins(tryLLMTextExtractionNoText(ex))
                 THEN /\ result' = tryLLMTextExtractionNoText(ex)
                      /\ pc' = "done"
                 ELSE /\ result' = result
                      /\ pc' = "vision"
         ELSE /\ log' = Append(log, Event("pdfExtractor.ExtractBytes", "text"))
              /\ textResult' = textResult
              /\ result' = result
              /\ pc' = "text_llm"
    /\ UNCHANGED <<llmExtractor, op, ctx, data, mimeType, visionResult,
                   images, imageData, imageMimeType, calcVars, invVars, fnVars>>

\* a variant of TextLLM that repeats a failed model call
TextLLM_Retries ==
    /\ pc = "text_llm"
    /\ \E chat \in ChatOutcomes(ctx), decode \in DecodeOutcomes :
         LET x == ExtractFromOCRText(chat, decode)
             tr == tryLLMTextExtractionResult(x)
         IN  /\ log' = Append(log, Event("llmExtractor.ExtractFromOCRText",
                                         IF chat = "err" THEN "call_err"
                                         ELSE IF decode = "err" THEN "decode_err"
                                         ELSE "ok"))
             /\ textResult' = tr
             /\ IF tr.Invoice # NoInvoice /\ tr.Error = NoError
                THEN /\ result' = tr
                     /\ pc' = "done"
                ELSE /\ result' = result
                     /\ pc' = IF chat = "err" /\ Len(log) < 4 THEN "text_llm" ELSE "vision"
    /\ UNCHANGED <<llmExtractor, op, ctx, data, mimeType, visionResult,
                   images, imageData, imageMimeType, calcVars, invVars, fnVars>>

\* tryLLMTextExtraction: p.llmExtractor.ExtractFromOCRText(ctx, extracted.RawText),
\* and ProcessPDF's test of the text stage's result
TextLLM ==
    /\ pc = "text_llm"
    /\ \E chat \in ChatOutcomes(ctx), decode \in DecodeOutcomes :
         LET x == ExtractFromOCRText(chat, decode)
             tr == tryLLMTextExtractionResult(x)
         IN  /\ log' = Append(log, Event("llmExtractor.ExtractFromOCRText",
                                         IF chat = "err" THEN "call_err"
                                         ELSE IF decode = "err" THEN "decode_err"
                                         ELSE "ok"))
             /\ textResult' = tr
             /\ IF TextStageWins(tr)
                THEN /\ result' = tr
                     /\ pc' = "done"
                ELSE /\ result' = result
                     /\ pc' = "vision"
    /\ UNCHANGED <<llmExtractor, op, ctx, data, mimeType, visionResult,
                   images, imageData, imageMimeType, calcVars, invVars, fnVars>>

\* ProcessImage(ctx, imageData, mimeType)
ProcessImage ==
    /\ pc = "idle"
    /\ \E c \in CtxStates, d \in DataSamples, m \in MimeTypes :
         /\ op' = "ProcessImage"
         /\ ctx' = c
         /\ data' = d
         /\ mimeType' = m
    /\ Fresh
    /\ IF llmExtractor = "nil"
       THEN /\ result' = ErrorResult(<<"LLM extractor not configured">>, <<>>)
            /\ pc' = "done"
       ELSE /\ result' = ZeroResult
            /\ pc' = "vision"
    /\ UNCHANGED <<llmExtractor, calcVars, invVars, fnVars>>

\* tryLLMVisionExtraction(ctx, data, mimeType): rasterize a PDF, pass an image on
VisionEntry ==
    /\ pc = "vision"
    /\ IF IsPDFInput(data, mimeType)
       THEN /\ pc' = "rasterize"
            /\ UNCHANGED <<imageData, imageMimeType>>
       ELSE /\ imageData' = data
            /\ imageMimeType' = mimeType
            /\ pc' = "vision_llm"
    /\ UNCHANGED <<llmExtractor, op, ctx, data, mimeType, textResult, visionResult,
                   images, result, log, calcVars, invVars, fnVars>>

\* tryLLMVisionExtraction: p.pdfExtractor.ConvertToImages(ctx, data)
Rasterize ==
    /\ pc = "rasterize"
    /\ \E setup \in SetupOutcomes, tool1 \in ToolOutcomes(ctx),
          tool2 \in ToolOutcomes(ctx), files \in RasterFiles :
         LET cv == ConvertToImages(setup, tool1, tool2, files) IN
         IF cv.err # NoError
         THEN /\ log' = Append(log, Event("pdfExtractor.ConvertToImages", "err"))
              /\ visionResult' = tryLLMVisionExtractionNoImage(cv.err)
              /\ result' = AfterVision(op, textResult,
                                       tryLLMVisionExtractionNoImage(cv.err))
              /\ pc' = "done"
              /\ UNCHANGED <<images, imageData, imageMimeType>>
         ELSE /\ log' = Append(log, Event("pdfExtractor.ConvertToImages", "ok"))
              /\ images' = cv.images
              /\ imageData' = cv.images[1]
              /\ imageMimeType' = detectImageMimeType(cv.images[1])
              /\ pc' = "vision_llm"
              /\ UNCHANGED <<visionResult, result>>
    /\ UNCHANGED <<llmExtractor, op, ctx, data, mimeType, textResult, calcVars, invVars, fnVars>>

\* tryLLMVisionExtraction: p.llmExtractor.ExtractFromImage(ctx, imageData,
\* imageMimeType), and the return of the caller
VisionLLM ==
    /\ pc = "vision_llm"
    /\ \E chat \in ChatOutcomes(ctx), decode \in DecodeOutcomes :
         LET x == ExtractFromImage(chat, decode)
             vr == tryLLMVisionExtractionResult(x)
         IN  /\ log' = Append(log, Event("llmExtractor.ExtractFromImage",
                                         IF chat = "err" THEN "call_err"
                                         ELSE IF decode = "err" THEN "decode_err"
                                         ELSE "ok"))
             /\ visionResult' = vr
             /\ result' = AfterVision(op, textResult, vr)
    /\ pc' = "done"
    /\ UNCHANGED <<llmExtractor, op, ctx, data, mimeType, textResult,
                   images, imageData, imageMimeType, calcVars, invVars, fnVars>>

\* the caller's context is cancelled, or its deadline passes, during the call
Cancel ==
    /\ pc \notin {"idle", "done"}
    /\ ctx = "live"
    /\ ctx' = "cancelled"
    /\ log' = Append(log, Event("ctx", "cancelled"))
    /\ UNCHANGED <<llmExtractor, pc, op, data, mimeType, textResult, visionResult,
                   images, imageData, imageMimeType, result, calcVars, invVars, fnVars>>

\* the caller takes the Result; the call's locals go out of scope
Return ==
    /\ pc = "done"
    /\ pc' = "idle"
    /\ op' = ""
    /\ ctx' = "live"
    /\ data' = <<>>
    /\ mimeType' = ""
    /\ result' = ZeroResult
    /\ Fresh
    /\ UNCHANGED <<llmExtractor, calcVars, invVars, fnVars>>

\* NewPipeline(opts...): with or without WithLLMExtractor
Init ==
    /\ llmExtractor \in {"nil", "configured"}
    /\ pc = "idle"
    /\ op = ""
    /\ ctx = "live"
    /\ data = <<>>
    /\ mimeType = ""
    /\ textResult = ZeroResult
    /\ visionResult = ZeroResult
    /\ images = <<>>
    /\ imageData = <<>>
    /\ imageMimeType = ""
    /\ result = ZeroResult
    /\ log = <<>>
    /\ li = IdleLineItem
    /\ liBefore = IdleLineItem
    /\ calcCalls = 0
    /\ InvIdle
    /\ FnIdle

Next ==
    \/ ProcessXML
    \/ ProcessXMLBytes
    \/ XMLParse
    \/ ProcessPDF
    \/ TextExtract
    \/ TextLLM
    \/ ProcessImage
    \/ VisionEntry
    \/ Rasterize
    \/ VisionLLM
    \/ Cancel
    \/ Return

Spec == Init /\ [][Next]_vars

----------------------------------------------------------------------------
(* The calculator on its own: a line item is built, then Calculate is called on it *)

InitCalc ==
    /\ llmExtractor = "nil"
    /\ pc = "idle"
    /\ op = ""
    /\ ctx = "live"
    /\ data = <<>>
    /\ mimeType = ""
    /\ textResult = ZeroResult
    /\ visionResult = ZeroResult
    /\ images = <<>>
    /\ imageData = <<>>
    /\ imageMimeType = ""
    /\ result = ZeroResult
    /\ log = <<>>
    /\ li \in InputLineItems
    /\ liBefore = li
    /\ calcCalls = 0
    /\ InvIdle
    /\ FnIdle

\* li.Calculate()
CalculateCall ==
    /\ calcCalls < MaxCalcCalls
    /\ liBefore' = li
    /\ li' = Calculate(li)
    /\ calcCalls' = calcCalls + 1
    /\ UNCHANGED <<pipelineVars, invVars, fnVars>>

NextCalc == CalculateCall

SpecCalc == InitCalc /\ [][NextCalc]_vars

----------------------------------------------------------------------------
(* Invoice totals: an invoice is built, then CalculateTotals is called on it *)

InitTotals ==
    /\ PipelineIdle
    /\ CalcIdle
    /\ FnIdle
    /\ resp = ZeroResponse
    /\ invoice \in InputInvoices
    /\ invBefore = invoice
    /\ invOps = <<>>

\* invoice.CalculateTotals()
CalculateTotalsCall ==
    /\ Len(invOps) < MaxTotalsCalls
    /\ invBefore' = invoice
    /\ invoice' = CalculateTotals(invoice)
    /\ invOps' = Append(invOps, "CalculateTotals")
    /\ UNCHANGED <<pipelineVars, calcVars, fnVars, resp>>

NextTotals == CalculateTotalsCall

SpecTotals == InitTotals /\ [][NextTotals]_vars

----------------------------------------------------------------------------
(* parseDecimal on its own: a numeric literal is chosen, then parsed *)

InitParse ==
    /\ PipelineIdle
    /\ CalcIdle
    /\ InvIdle
    /\ fnArg \in Tokens
    /\ fnRet = Zero
    /\ fnDone = FALSE

\* parseDecimal(fnArg)
ParseDecimalCall ==
    /\ ~fnDone
    /\ fnRet' = parseDecimal(fnArg)
    /\ fnDone' = TRUE
    /\ UNCHANGED <<pipelineVars, calcVars, invVars, fnArg>>

NextParse == ParseDecimalCall

SpecParse == InitParse /\ [][NextParse]_vars

----------------------------------------------------------------------------
(* The normalizer on its own: a decoded response is converted to an Invoice *)

InitNorm ==
    /\ PipelineIdle
    /\ CalcIdle
    /\ FnIdle
    /\ resp \in InputResponses
    /\ invoice = ZeroInvoice
    /\ invBefore = ZeroInvoice
    /\ invOps = <<>>

\* e.convertToInvoice(&llmResp)
ConvertToInvoiceCall ==
    /\ invOps = <<>>
    /\ invBefore' = invoice
    /\ invoice' = convertToInvoice(resp)
    /\ invOps' = Append(invOps, "convertToInvoice")
    /\ UNCHANGED <<pipelineVars, calcVars, fnVars, resp>>

NextNorm == ConvertToInvoiceCall

SpecNorm == InitNorm /\ [][NextNorm]_vars

----------------------------------------------------------------------------
(* Round trip: a canonical invoice is serialised, then normalised again *)

InitRoundTrip ==
    /\ PipelineIdle
    /\ CalcIdle
    /\ FnIdle
    /\ resp = ZeroResponse
    /\ invoice \in CanonicalInvoices
    /\ invBefore = invoice
    /\ invOps = <<>>

\* the canonical invoice is written as the JSON the normalizer reads
SerializeCall ==
    /\ invOps = <<>>
    /\ resp' = Serialize(invoice)
    /\ invBefore' = invoice
    /\ invOps' = Append(invOps, "Serialize")
    /\ UNCHANGED <<pipelineVars, calcVars, fnVars, invoice>>

\* parseResponse on the serialised invoice: decode, then convertToInvoice
NormalizeCall ==
    /\ invOps = <<"Serialize">>
    /\ invoice' = convertToInvoice(resp)
    /\ invOps' = Append(invOps, "convertToInvoice")
    /\ UNCHANGED <<pipelineVars, calcVars, fnVars, resp, invBefore>>

NextRoundTrip ==
    \/ SerializeCall
    \/ NormalizeCall

SpecRoundTrip == InitRoundTrip /\ [][NextRoundTrip]_vars

----------------------------------------------------------------------------
(* isPrintableText on its own: a decoded candidate string is chosen, then tested *)

InitPrintable ==
    /\ PipelineIdle
    /\ CalcIdle
    /\ InvIdle
    /\ fnArg \in RuneStrings
    /\ fnRet = FALSE
    /\ fnDone = FALSE

\* isPrintableText(fnArg)
IsPrintableTextCall ==
    /\ ~fnDone
    /\ fnRet' = isPrintableText(fnArg)
    /\ fnDone' = TRUE
    /\ UNCHANGED <<pipelineVars, calcVars, invVars, fnArg>>

NextPrintable == IsPrintableTextCall

SpecPrintable == InitPrintable /\ [][NextPrintable]_vars

----------------------------------------------------------------------------
(* DetectFormat on its own: a file content is chosen, then classified *)

InitDetect ==
    /\ PipelineIdle
    /\ CalcIdle
    /\ InvIdle
    /\ fnArg \in FormatInputs
    /\ fnRet = FormatUnknown
    /\ fnDone = FALSE

\* DetectFormat(fnArg)
DetectFormatCall ==
    /\ ~fnDone
    /\ fnRet' = DetectFormat(fnArg)
    /\ fnDone' = TRUE
    /\ UNCHANGED <<pipelineVars, calcVars, invVars, fnArg>>

NextDetect == DetectFormatCall

SpecDetect == InitDetect /\ [][NextDetect]_vars

----------------------------------------------------------------------------
(* extractTextFromContentStream on its own: a stream is chosen, then mined *)

InitExtractText ==
    /\ PipelineIdle
    /\ CalcIdle
    /\ InvIdle
    /\ fnArg \in ContentStreams
    /\ fnRet = <<>>
    /\ fnDone = FALSE

\* extractTextFromContentStream(fnArg)
ExtractTextCall ==
    /\ ~fnDone
    /\ fnRet' = extractTextFromContentStream(fnArg)
    /\ fnDone' = TRUE
    /\ UNCHANGED <<pipelineVars, calcVars, invVars, fnArg>>

NextExtractText == ExtractTextCall

SpecExtractText == InitExtractText /\ [][NextExtractText]_vars

----------------------------------------------------------------------------
(* FindNear on its own: a mined text, a label and a distance are chosen *)

InitFindNear ==
    /\ PipelineIdle
    /\ CalcIdle
    /\ InvIdle
    /\ fnArg \in FindNearInputs
    /\ fnRet = <<>>
    /\ fnDone = FALSE

\* et.FindNear(label, maxDistance)
FindNearCall ==
    /\ ~fnDone
    /\ fnRet' = FindNear(fnArg.RawText, fnArg.label, fnArg.maxDistance)
    /\ fnDone' = TRUE
    /\ UNCHANGED <<pipelineVars, calcVars, invVars, fnArg>>

NextFindNear == FindNearCall

SpecFindNear == InitFindNear /\ [][NextFindNear]_vars

----------------------------------------------------------------------------
(* Rasterization, step by step (pdf.Extractor.ConvertToImages) *)

\* fnArg is the temp directory on disk, fnRet the locals of the run: where it
\* stands, the tool runs made so far, the listing of os.ReadDir, and what it
\* returns.

InputPDF == [name |-> "input.pdf", data |-> SamplePDF]
PageFile(ext) ==
    [name |-> ext,
     data |-> IF ext = ".jpg" THEN SampleJPEG
              ELSE IF ext = ".png" THEN SamplePNG ELSE SampleOther]

\* the files one tool run leaves behind, named by their suffix
ToolExts == {".jpg", ".png", ".ppm"}
ToolFiles == UNION {[1..n -> {PageFile(x) : x \in ToolExts}] : n \in 0..MaxPages}

\* the suffix test of ConvertToImages
IsImageName(name) == name \in {".png", ".jpg", ".jpeg"}

\* the images read from a listing, skipping the files that cannot be read
RECURSIVE ReadImages(_, _, _)
ReadImages(files, unreadable, n) ==
    IF n = 0 THEN <<>>
    ELSE IF IsImageName(files[n].name) /\ n \notin unreadable
    THEN Append(ReadImages(files, unreadable, n - 1), files[n].data)
    ELSE ReadImages(files, unreadable, n - 1)

RasterLocals(at, runs, files, imgs, err) ==
    [pc |-> at, runs |-> runs, files |-> files, images |-> imgs, err |-> err]

InitRaster ==
    /\ PipelineIdle
    /\ CalcIdle
    /\ InvIdle
    /\ fnArg = <<>>
    /\ fnRet = RasterLocals("mkdir", <<>>, <<>>, <<>>, NoError)
    /\ fnDone = FALSE

\* return nil, err with the deferred os.RemoveAll(tmpDir)
RasterFail(err) ==
    /\ fnRet' = [fnRet EXCEPT !.pc = "done", !.err = err]
    /\ fnArg' = <<>>
    /\ fnDone' = TRUE

\* os.MkdirTemp("", "pdf-images-*"): no directory to remove when it fails
MkdirTemp ==
    /\ fnRet.pc = "mkdir"
    /\ \/ /\ fnRet' = [fnRet EXCEPT !.pc = "write"]
          /\ UNCHANGED fnDone
       \/ /\ fnRet' = [fnRet EXCEPT !.pc = "done",
                                    !.err = Wrap("failed to create temp dir", IOError)]
          /\ fnDone' = TRUE
    /\ UNCHANGED <<pipelineVars, calcVars, invVars, fnArg>>

\* os.WriteFile(pdfPath, pdfData, 0644)
WriteFile ==
    /\ fnRet.pc = "write"
    /\ \/ /\ fnArg' = <<InputPDF>>
          /\ fnRet' = [fnRet EXCEPT !.pc = "pdftoppm"]
          /\ UNCHANGED fnDone
       \/ RasterFail(Wrap("failed to write temp PDF", IOError))
    /\ UNCHANGED <<pipelineVars, calcVars, invVars>>

\* a variant of RunPdftoppm that runs convert whatever pdftoppm returned
RunPdftoppm_AlwaysFallsBack ==
    /\ fnRet.pc = "pdftoppm"
    /\ \E out \in ToolOutcomes(ctx), files \in ToolFiles :
         /\ fnArg' = fnArg \o files
         /\ fnRet' = [fnRet EXCEPT !.runs = Append(@, Event("pdftoppm", out)),
                                   !.pc = "convert"]
    /\ UNCHANGED <<pipelineVars, calcVars, invVars, fnDone>>

\* convertPDFToImages: cmd.Run() of pdftoppm
RunPdftoppm ==
    /\ fnRet.pc = "pdftoppm"
    /\ \E out \in ToolOutcomes(ctx), files \in ToolFiles :
         /\ fnArg' = fnArg \o files
         /\ fnRet' = [fnRet EXCEPT !.runs = Append(@, Event("pdftoppm", out)),
                                   !.pc = IF out = "fail" THEN "convert" ELSE "readdir"]
    /\ UNCHANGED <<pipelineVars, calcVars, invVars, fnDone>>

\* convertPDFToImages: cmd.Run() of convert, after pdftoppm failed
RunConvert ==
    /\ fnRet.pc = "convert"
    /\ \E out \in ToolOutcomes(ctx), files \in ToolFiles :
         IF out = "fail"
         THEN /\ fnRet' = [fnRet EXCEPT
                             !.runs = Append(@, Event("convert", out)),
                             !.pc = "done",
                             !.err = Wrap("failed to convert PDF to images",
                                          convertPDFToImages("fail", out))]
              /\ fnArg' = <<>>
              /\ fnDone' = TRUE
         ELSE /\ fnArg' = fnArg \o files
              /\ fnRet' = [fnRet EXCEPT !.runs = Append(@, Event("convert", out)),
                                        !.pc = "readdir"]
              /\ UNCHANGED fnDone
    /\ UNCHANGED <<pipelineVars, calcVars, invVars>>

\* os.ReadDir(tmpDir)
ReadDir ==
    /\ fnRet.pc = "readdir"
    /\ \/ /\ fnRet' = [fnRet EXCEPT !.files = fnArg, !.pc = "readfiles"]
          /\ UNCHANGED <<fnArg, fnDone>>
       \/ RasterFail(Wrap("failed to read temp dir", IOError))
    /\ UNCHANGED <<pipelineVars, calcVars, invVars>>

\* the loop over the listing, and the return
ReadFiles ==
    /\ fnRet.pc = "readfiles"
    /\ \E unreadable \in SUBSET DOMAIN fnRet.files :
         LET imgs == ReadImages(fnRet.files, unreadable, Len(fnRet.files)) IN
         IF Len(imgs) = 0
         THEN RasterFail(<<"no images generated from PDF">>)
         ELSE /\ fnRet' = [fnRet EXCEPT !.pc = "done", !.images = imgs]
              /\ fnArg' = <<>>
              /\ fnDone' = TRUE
    /\ UNCHANGED <<pipelineVars, calcVars, invVars>>

NextRaster ==
    \/ MkdirTemp
    \/ WriteFile
    \/ RunPdftoppm
    \/ RunConvert
    \/ ReadDir
    \/ ReadFiles

SpecRaster == InitRaster /\ [][NextRaster]_vars

----------------------------------------------------------------------------
(* Concurrent Process* calls on one Pipeline *)

\* Each caller makes one call.  fnRet holds the locals of the calls, fnArg what
\* the calls share besides the Pipeline: the temp directories of the file
\* system and the number of Invoice objects allocated so far.  A file is named
\* by the caller whose document it was made from.

Callers == {"a", "b"}
DirNames == 1..Cardinality(Callers)
ConcOps == {"ProcessXML", "ProcessPDF", "ProcessImage"}

\* what the model call answers: an invoice, a failed request, or bad JSON
ModelAnswers == {"ok", "call_err", "decode_err"}

NoDir == [exists |-> FALSE, files |-> {}]
NoAnswers ==
    [xml |-> "none", text_write |-> "none", text_llm |-> "none",
     vision_write |-> "none", vision_llm |-> "none"]
IdleCall ==
    [pc |-> "idle", op |-> "", dir |-> 0, material |-> {}, textResult |-> ZeroResult,
     visionResult |-> ZeroResult, result |-> ZeroResult, obj |-> 0, answers |-> NoAnswers]

\* the invoice the normalizer builds from the documents the model was shown
InvoiceRead(material) ==
    IF material = {"a"} THEN "invoice(a)"
    ELSE IF material = {"b"} THEN "invoice(b)"
    ELSE "invoice(mixed)"

\* llm.Extractor.ExtractFromOCRText / ExtractFromImage on that material
ModelCall(answer, material) ==
    IF answer = "call_err"
    THEN [invoice |-> NoInvoice, err |-> Wrap("LLM request failed", ChatError)]
    ELSE parseResponse(IF answer = "decode_err" THEN "err" ELSE "ok", InvoiceRead(material))

InitConc ==
    /\ llmExtractor = "configured"
    /\ pc = "idle"
    /\ op = ""
    /\ ctx = "live"
    /\ data = <<>>
    /\ mimeType = ""
    /\ textResult = ZeroResult
    /\ visionResult = ZeroResult
    /\ images = <<>>
    /\ imageData = <<>>
    /\ imageMimeType = ""
    /\ result = ZeroResult
    /\ log = <<>>
    /\ CalcIdle
    /\ InvIdle
    /\ fnArg = [dirs |-> [d \in DirNames |-> NoDir], allocated |-> 0]
    /\ fnRet = [c \in Callers |-> IdleCall]
    /\ fnDone = FALSE

\* the answers a call has got so far, with answer v of collaborator k added
Answered(c, k, v) == [fnRet[c].answers EXCEPT ![k] = v]

\* the call of c returns r; an invoice in r is an object allocated for it by
\* convertToInvoice (inv := &model.Invoice{...}) or by the XML registry
ConcReturn(c, r, answers) ==
    /\ fnRet' = [fnRet EXCEPT ![c].pc = "done",
                              ![c].result = r,
                              ![c].answers = answers,
                              ![c].obj = IF r.Invoice # NoInvoice THEN fnArg.allocated + 1
                                         ELSE 0]
    /\ fnArg' = [fnArg EXCEPT !.allocated = IF r.Invoice # NoInvoice THEN @ + 1 ELSE @]

\* a caller enters ProcessXML, ProcessPDF or ProcessImage with its document
ConcBegin(c) ==
    /\ fnRet[c].pc = "idle"
    /\ \E o \in ConcOps :
         fnRet' = [fnRet EXCEPT ![c].op = o,
                                ![c].material = IF o = "ProcessImage" THEN {c} ELSE {},
                                ![c].pc = CASE o = "ProcessXML" -> "xml"
                                            [] o = "ProcessPDF" -> "text_mkdir"
                                            [] OTHER -> "vision_llm"]
    /\ UNCHANGED <<pipelineVars, calcVars, invVars, fnArg, fnDone>>

\* ProcessXMLBytes: p.xmlRegistry.Parse(data)
ConcParseXML(c) ==
    /\ fnRet[c].pc = "xml"
    /\ \E out \in XMLParseOutcomes :
         ConcReturn(c, ProcessXMLBytesResult(out), Answered(c, "xml", out))
    /\ UNCHANGED <<pipelineVars, calcVars, invVars, fnDone>>

\* a variant of ConcMkdirTemp that always uses the same directory
ConcMkdirTemp_FixedName(c) ==
    /\ fnRet[c].pc \in {"text_mkdir", "vision_mkdir"}
    /\ fnArg' = [fnArg EXCEPT !.dirs[1].exists = TRUE]
    /\ fnRet' = [fnRet EXCEPT ![c].dir = 1,
                              ![c].pc = IF @ = "text_mkdir" THEN "text_write"
                                        ELSE "vision_write"]
    /\ UNCHANGED <<pipelineVars, calcVars, invVars, fnDone>>

\* os.MkdirTemp("", "pdf-extract-*") of Extract and os.MkdirTemp("",
\* "pdf-images-*") of ConvertToImages: a new directory under a name no
\* existing directory has
ConcMkdirTemp(c) ==
    /\ fnRet[c].pc \in {"text_mkdir", "vision_mkdir"}
    /\ \E d \in DirNames :
         /\ ~fnArg.dirs[d].exists
         /\ fnArg' = [fnArg EXCEPT !.dirs[d] = [exists |-> TRUE, files |-> {}]]
         /\ fnRet' = [fnRet EXCEPT ![c].dir = d,
                                   ![c].pc = IF @ = "text_mkdir" THEN "text_write"
                                             ELSE "vision_write"]
    /\ UNCHANGED <<pipelineVars, calcVars, invVars, fnDone>>

\* api.ExtractContent writing the content streams of the caller's document
\* into its directory (text stage), or os.WriteFile of input.pdf and the
\* rasterizer writing its pages (vision stage); on failure the stage ends and
\* the deferred os.RemoveAll runs
ConcWrite(c) ==
    /\ fnRet[c].pc \in {"text_write", "vision_write"}
    /\ \E out \in ToolOutcomes(ctx) :
         LET stage == fnRet[c].pc
             d == fnRet[c].dir
             answers == Answered(c, stage, out)
         IN  IF out = "ok"
             THEN /\ fnArg' = [fnArg EXCEPT !.dirs[d].files = @ \cup {c}]
                  /\ fnRet' = [fnRet EXCEPT ![c].answers = answers,
                                            ![c].pc = IF stage = "text_write"
                                                      THEN "text_read" ELSE "vision_read"]
             ELSE IF stage = "text_write"
             THEN /\ fnArg' = [fnArg EXCEPT !.dirs[d] = NoDir]
                  /\ fnRet' = [fnRet EXCEPT
                        ![c].answers = answers,
                        ![c].textResult = tryLLMTextExtractionNoText(
                            [RawText |-> "", err |-> Wrap("failed to read PDF", IOError)]),
                        ![c].pc = "vision_mkdir"]
             ELSE LET vr == tryLLMVisionExtractionNoImage(convertPDFToImages("fail", "fail"))
                      r == ProcessPDFReturn(fnRet[c].textResult, vr)
                  IN  /\ fnRet' = [fnRet EXCEPT ![c].pc = "done",
                                                ![c].answers = answers,
                                                ![c].visionResult = vr,
                                                ![c].result = r]
                      /\ fnArg' = [fnArg EXCEPT !.dirs[d] = NoDir]
    /\ UNCHANGED <<pipelineVars, calcVars, invVars, fnDone>>

\* os.ReadDir and os.ReadFile of the files of the call's directory, then the
\* deferred os.RemoveAll(tmpDir); with nothing read the stage ends
ConcRead(c) ==
    /\ fnRet[c].pc \in {"text_read", "vision_read"}
    /\ LET stage == fnRet[c].pc
           d == fnRet[c].dir
           files == IF fnArg.dirs[d].exists THEN fnArg.dirs[d].files ELSE {}
       IN  /\ fnArg' = [fnArg EXCEPT !.dirs[d] = NoDir]
           /\ IF files # {}
              THEN fnRet' = [fnRet EXCEPT ![c].material = files,
                                          ![c].pc = IF stage = "text_read"
                                                    THEN "text_llm" ELSE "vision_llm"]
              ELSE IF stage = "text_read"
              THEN fnRet' = [fnRet EXCEPT
                        ![c].textResult = tryLLMTextExtractionNoText(
                            [RawText |-> "", err |-> NoError]),
                        ![c].pc = "vision_mkdir"]
              ELSE LET vr == tryLLMVisionExtractionNoImage(<<"no images generated from PDF">>)
                   IN  fnRet' = [fnRet EXCEPT
                            ![c].pc = "done",
                            ![c].visionResult = vr,
                            ![c].result = ProcessPDFReturn(fnRet[c].textResult, vr)]
    /\ UNCHANGED <<pipelineVars, calcVars, invVars, fnDone>>

\* p.llmExtractor.ExtractFromOCRText on the mined text, or ExtractFromImage on
\* the first image, and what tryLLMTextExtraction, tryLLMVisionExtraction and
\* their caller do with the answer
ConcModelCall(c) ==
    /\ fnRet[c].pc \in {"text_llm", "vision_llm"}
    /\ \E answer \in ModelAnswers :
         LET stage == fnRet[c].pc
             x == ModelCall(answer, fnRet[c].material)
             answers == Answered(c, stage, answer)
             tr == tryLLMTextExtractionResult(x)
             vr == tryLLMVisionExtractionResult(x)
         IN  IF stage = "text_llm"
             THEN IF TextStageWins(tr)
                  THEN ConcReturn(c, tr, answers)
                  ELSE /\ fnRet' = [fnRet EXCEPT ![c].answers = answers,
                                                 ![c].textResult = tr,
                                                 ![c].pc = "vision_mkdir"]
                       /\ UNCHANGED fnArg
             ELSE ConcReturn(c, AfterVision(fnRet[c].op, fnRet[c].textResult, vr), answers)
    /\ UNCHANGED <<pipelineVars, calcVars, invVars, fnDone>>

NextConc ==
    \E c \in Callers :
        \/ ConcBegin(c)
        \/ ConcParseXML(c)
        \/ ConcMkdirTemp(c)
        \/ ConcWrite(c)
        \/ ConcRead(c)
        \/ ConcModelCall(c)

SpecConc == InitConc /\ [][NextConc]_vars

----------------------------------------------------------------------------
(* Properties of the pipeline *)

Called(fn) == \E i \in DOMAIN log : log[i].fn = fn
CallCount(fn) == Cardinality({i \in DOMAIN log : log[i].fn = fn})
Logged(fn, out) == \E i \in DOMAIN log : log[i] = Event(fn, out)

\* s occurs in t as a run of consecutive elements
Contains(t, s) ==
    \E i \in 1..(Len(t) - Len(s) + 1) : SubSeq(t, i, i + Len(s) - 1) = s

TextFailureAt(i) ==
    \/ log[i].fn = "pdfExtractor.ExtractBytes" /\ log[i].out \in {"err", "empty"}
    \/ log[i].fn = "llmExtractor.ExtractFromOCRText" /\ log[i].out \in {"call_err", "decode_err"}
\* the context was cancelled while the text stage was still calling collaborators
CancelInTextStageAt(i) ==
    /\ log[i] = Event("ctx", "cancelled")
    /\ \E j \in DOMAIN log :
         j > i /\ log[j].fn \in {"pdfExtractor.ExtractBytes", "llmExtractor.ExtractFromOCRText"}
VisionAttemptAfter(i) ==
    \E j \in DOMAIN log :
        j > i /\ log[j].fn \in {"pdfExtractor.ConvertToImages", "llmExtractor.ExtractFromImage"}
TextStageFailed == \E i \in DOMAIN log : TextFailureAt(i)
VisionStageFailed ==
    \/ Logged("pdfExtractor.ConvertToImages", "err")
    \/ Logged("llmExtractor.ExtractFromImage", "call_err")
    \/ Logged("llmExtractor.ExtractFromImage", "decode_err")
VisionStageSucceeded == Logged("llmExtractor.ExtractFromImage", "ok")

\* the vision model call is about to be made, or has been made
VisionModelCall == pc = "vision_llm" \/ Called("llmExtractor.ExtractFromImage")

\* section 6: MIME sniffing of an image from its magic bytes
SniffedMime(d) ==
    IF HasPrefix(d, <<255, 216, 255>>) THEN "image/jpeg"
    ELSE IF HasPrefix(d, <<137, 80, 78, 71>>) THEN "image/png"
    ELSE "image/jpeg"

IsSuccessShape(r) ==
    /\ r.Invoice # NoInvoice
    /\ r.Method \in Methods
    /\ r.Confidence \in {ConfidenceXML, ConfidenceLLMText, ConfidenceLLMVision}
    /\ r.Error = NoError
IsFailureShape(r) == r.Invoice = NoInvoice /\ r.Error # NoError

\* C1: every Result a Process* call returns is either (Invoice, Method, Confidence,
\* no Error) or (no Invoice, Error): exactly one of the two, never both, never neither.
C1_ResultShape ==
    pc = "done" => (IsSuccessShape(result) /\ ~IsFailureShape(result))
                   \/ (IsFailureShape(result) /\ ~IsSuccessShape(result))

\* a ProcessPDF call that returned after both of its stages failed
C1_Witness ==
    /\ pc = "done" /\ op = "ProcessPDF"
    /\ TextStageFailed /\ VisionStageFailed
    /\ IsFailureShape(result)

\* C2: in ProcessPDF, once the text stage succeeds (text mined, invoice normalized)
\* the call has returned with llm_text and 0.85, and neither the rasterizer nor the
\* vision model call is made in that call.
C2_TextStageShortCircuits ==
    (op = "ProcessPDF" /\ Logged("llmExtractor.ExtractFromOCRText", "ok")) =>
        /\ Logged("pdfExtractor.ExtractBytes", "text")
        /\ pc = "done"
        /\ result.Invoice = InvoiceFromText
        /\ result.Method = MethodLLMText
        /\ result.Confidence = 85
        /\ ~Called("pdfExtractor.ConvertToImages")
        /\ ~Called("llmExtractor.ExtractFromImage")

C2_Witness ==
    /\ pc = "done" /\ op = "ProcessPDF"
    /\ Logged("llmExtractor.ExtractFromOCRText", "ok")
    /\ result.Method = MethodLLMText

\* C3: in ProcessPDF every text-stage failure (miner error, empty text, model call
\* failure, decode failure, cancellation during the text stage) is followed by an
\* attempt of the vision stage in the same call, and a vision stage that succeeds
\* gives llm_vision with 0.80.
C3_TextFailureFallsBack ==
    (pc = "done" /\ op = "ProcessPDF") =>
        /\ \A i \in DOMAIN log :
             (TextFailureAt(i) \/ CancelInTextStageAt(i)) => VisionAttemptAfter(i)
        /\ (TextStageFailed /\ VisionStageSucceeded) =>
             /\ result.Invoice = InvoiceFromVision
             /\ result.Method = MethodLLMVision
             /\ result.Confidence = 80

\* empty mined text, then a vision stage that succeeds
C3_Witness ==
    /\ pc = "done" /\ op = "ProcessPDF"
    /\ Logged("pdfExtractor.ExtractBytes", "empty")
    /\ VisionStageSucceeded
    /\ result.Method = MethodLLMVision

\* C4: when both stages of ProcessPDF fail, the Result has no Invoice, one composite
\* Error that contains the text-stage cause and the vision-stage cause, and Warnings
\* equal to the text-stage warnings followed by the vision-stage warnings.
C4_BothStagesFail ==
    (pc = "done" /\ op = "ProcessPDF" /\ TextStageFailed /\ VisionStageFailed) =>
        /\ result.Invoice = NoInvoice
        /\ result.Error # NoError
        /\ textResult.Error # NoError /\ visionResult.Error # NoError
        /\ Contains(result.Error, textResult.Error)
        /\ Contains(result.Error, visionResult.Error)
        /\ Len(textResult.Warnings) = 1 /\ Len(visionResult.Warnings) = 1
        /\ result.Warnings = textResult.Warnings \o visionResult.Warnings

\* the model call of the text stage failed, then the rasterizer failed
C4_Witness ==
    /\ pc = "done" /\ op = "ProcessPDF"
    /\ Logged("llmExtractor.ExtractFromOCRText", "call_err")
    /\ Logged("pdfExtractor.ConvertToImages", "err")
    /\ Len(result.Warnings) = 2

\* C5: ProcessXML calls the XML-parse collaborator only: success gives xml with
\* confidence exactly 1.0, a parse failure gives the wrapped parse error, and no model
\* based extraction is attempted, with or without a configured model collaborator.
C5_XMLOnly ==
    op \in {"ProcessXML", "ProcessXMLBytes"} =>
        /\ \A i \in DOMAIN log : log[i].fn \in {"xmlRegistry.Parse", "ctx"}
        /\ pc \in {"xml_parse", "done"}
        /\ (pc = "done" /\ Logged("xmlRegistry.Parse", "ok")) =>
             /\ result.Invoice = InvoiceFromXML
             /\ result.Method = MethodXML
             /\ result.Confidence = 100
             /\ result.Error = NoError
        /\ (pc = "done" /\ Logged("xmlRegistry.Parse", "err")) =>
             /\ result.Invoice = NoInvoice
             /\ result.Error = <<"XML parsing failed">> \o XMLParseError

\* a parse failure on a pipeline that has a model collaborator
C5_Witness ==
    /\ pc = "done" /\ op = "ProcessXML"
    /\ llmExtractor = "configured"
    /\ Logged("xmlRegistry.Parse", "err")
    /\ result.Error # NoError

\* C6: within one Process* call every collaborator is invoked at most once: there is
\* no retry, a failure ends the stage.
C6_NoRetries ==
    \A fn \in {"xmlRegistry.Parse", "pdfExtractor.ExtractBytes",
               "llmExtractor.ExtractFromOCRText", "pdfExtractor.ConvertToImages",
               "llmExtractor.ExtractFromImage"} :
        CallCount(fn) <= 1

\* all four collaborators of ProcessPDF were called, and the text model call failed
C6_Witness ==
    /\ pc = "done" /\ op = "ProcessPDF"
    /\ Logged("llmExtractor.ExtractFromOCRText", "call_err")
    /\ CallCount("pdfExtractor.ExtractBytes") = 1
    /\ CallCount("pdfExtractor.ConvertToImages") = 1
    /\ CallCount("llmExtractor.ExtractFromImage") = 1

\* C7 as stated: in ProcessPDF's vision stage, for every input and every declared
\* MIME type, the PDF is rasterized before the vision model is called, and the model
\* gets the first page image with the MIME type sniffed from it.
C7_AlwaysRasterized ==
    (op = "ProcessPDF" /\ VisionModelCall) =>
        /\ Logged("pdfExtractor.ConvertToImages", "ok")
        /\ Len(images) >= 1
        /\ imageData = images[1]
        /\ imageMimeType = SniffedMime(imageData)

\* C7, amended: that holds when the declared MIME type is application/pdf or the
\* input begins with %PDF; otherwise the vision model gets the raw input bytes and the
\* declared MIME type, and the rasterizer is not called.
C7_RasterizedWhenPDF ==
    (op = "ProcessPDF" /\ VisionModelCall) =>
        IF mimeType = "application/pdf" \/ HasPrefix(data, PDFMagic)
        THEN /\ Logged("pdfExtractor.ConvertToImages", "ok")
             /\ Len(images) >= 1
             /\ imageData = images[1]
             /\ imageMimeType = SniffedMime(imageData)
        ELSE /\ ~Called("pdfExtractor.ConvertToImages")
             /\ imageData = data
             /\ imageMimeType = mimeType

\* a %PDF input declared as an image: rasterized, and the PNG page is what is sent
C7_Witness ==
    /\ op = "ProcessPDF" /\ Called("llmExtractor.ExtractFromImage")
    /\ HasPrefix(data, PDFMagic) /\ mimeType = "image/jpeg"
    /\ Len(images) = 2
    /\ imageData = SamplePNG /\ imageMimeType = "image/png"

\* C8 as stated: in ProcessImage, for every image and caller-supplied MIME type, the
\* MIME type passed to the vision model is the one sniffed from the image's magic
\* bytes.
C8_MimeAlwaysSniffed ==
    (op = "ProcessImage" /\ VisionModelCall) => imageMimeType = SniffedMime(imageData)

\* C8, amended: ProcessImage runs the vision stage of ProcessPDF; the MIME type is
\* sniffed (from the first rasterized page) only when the caller-supplied MIME type is
\* application/pdf or the bytes begin with %PDF, and otherwise the caller-supplied
\* MIME type is passed on unchanged together with the caller's bytes.
C8_MimeSniffedWhenPDF ==
    (op = "ProcessImage" /\ VisionModelCall) =>
        IF mimeType = "application/pdf" \/ HasPrefix(data, PDFMagic)
        THEN /\ Logged("pdfExtractor.ConvertToImages", "ok")
             /\ Len(images) >= 1
             /\ imageData = images[1]
             /\ imageMimeType = SniffedMime(imageData)
        ELSE /\ imageData = data
             /\ imageMimeType = mimeType

\* a PNG declared as image/jpeg reaches the vision model as image/jpeg
C8_Witness ==
    /\ op = "ProcessImage" /\ Called("llmExtractor.ExtractFromImage")
    /\ data = SamplePNG /\ mimeType = "image/jpeg"
    /\ imageData = SamplePNG /\ imageMimeType = "image/jpeg"

\* the text miner failed or mined no text
MinerGaveNoText ==
    \/ Logged("pdfExtractor.ExtractBytes", "err")
    \/ Logged("pdfExtractor.ExtractBytes", "empty")

\* C22: in the text stage of ProcessPDF, when the text miner returns an error
\* or empty text, the text model call is not made: the stage fails (with "no
\* text extracted from PDF" for empty text) with exactly one warning, and the
\* vision stage is entered.
C22_NoModelCallWithoutText ==
    (op = "ProcessPDF" /\ MinerGaveNoText) =>
        /\ ~Called("llmExtractor.ExtractFromOCRText")
        /\ pc \in {"vision", "rasterize", "vision_llm", "done"}
        /\ textResult.Invoice = NoInvoice
        /\ textResult.Error # NoError
        /\ Len(textResult.Warnings) = 1
        /\ Logged("pdfExtractor.ExtractBytes", "empty") =>
             textResult.Error = <<"no text extracted from PDF">>
        /\ pc = "done" =>
             \/ Called("pdfExtractor.ConvertToImages")
             \/ Called("llmExtractor.ExtractFromImage")

\* empty mined text, no text model call, and the vision stage ran to its end
C22_Witness ==
    /\ pc = "done" /\ op = "ProcessPDF"
    /\ Logged("pdfExtractor.ExtractBytes", "empty")
    /\ ~Called("llmExtractor.ExtractFromOCRText")
    /\ Called("llmExtractor.ExtractFromImage")
    /\ Len(textResult.Warnings) = 1

\* a Result with an invoice carries no warning, and warnings come with an error
WarningsOnlyWithError(r) ==
    /\ r.Invoice # NoInvoice => r.Warnings = <<>>
    /\ r.Warnings # <<>> => r.Error # NoError

\* C26: every Result whose Invoice is populated has an empty Warnings list, the
\* stage results included; when ProcessPDF succeeds through the vision stage
\* after a failed text stage, the text stage's warning is not in the returned
\* Result; warnings are only returned together with an Error.
C26_NoWarningsOnSuccess ==
    /\ WarningsOnlyWithError(textResult)
    /\ WarningsOnlyWithError(visionResult)
    /\ pc = "done" =>
         /\ WarningsOnlyWithError(result)
         /\ (op = "ProcessPDF" /\ TextStageFailed /\ result.Invoice # NoInvoice) =>
              /\ result.Method = MethodLLMVision
              /\ \A i \in DOMAIN textResult.Warnings :
                   \A j \in DOMAIN result.Warnings :
                       result.Warnings[j] # textResult.Warnings[i]

\* ProcessPDF returned the vision stage's invoice after the text stage had
\* failed with a warning
C26_Witness ==
    /\ pc = "done" /\ op = "ProcessPDF"
    /\ TextStageFailed
    /\ textResult.Warnings # <<>>
    /\ result.Invoice # NoInvoice
    /\ result.Method = MethodLLMVision
    /\ result.Warnings = <<>>

\* the tool runs of a rasterization, in order
ToolRuns == fnRet.runs
BothToolsFailed ==
    /\ Len(ToolRuns) = 2
    /\ ToolRuns[1].out = "fail"
    /\ ToolRuns[2].out = "fail"

\* the listing of the temp directory holds no file with an image suffix
NoImageFile == \A i \in DOMAIN fnRet.files : ~IsImageName(fnRet.files[i].name)

\* C25: ConvertToImages runs the second tool (convert) only after the first
\* (pdftoppm) failed and never after it succeeded; it returns an error and no
\* image when both tools fail or when the tools left no image file, and at
\* least one image when it returns no error.
C25_FallbackOnlyAfterFailure ==
    /\ Len(ToolRuns) <= 2
    /\ Len(ToolRuns) >= 1 => ToolRuns[1].fn = "pdftoppm"
    /\ Len(ToolRuns) = 2 => ToolRuns[2].fn = "convert" /\ ToolRuns[1].out = "fail"
    /\ (Len(ToolRuns) >= 1 /\ ToolRuns[1].out = "ok") => fnRet.pc # "convert"
    /\ (fnRet.pc = "convert") => (Len(ToolRuns) = 1 /\ ToolRuns[1].out = "fail")
    /\ fnDone =>
         /\ BothToolsFailed => (fnRet.err # NoError /\ fnRet.images = <<>>)
         /\ (ToolRuns # <<>> /\ NoImageFile) => (fnRet.err # NoError /\ fnRet.images = <<>>)
         /\ fnRet.err # NoError => fnRet.images = <<>>
         /\ fnRet.err = NoError => Len(fnRet.images) >= 1

\* pdftoppm failed, convert ran and left an image file, which was returned
C25_Witness ==
    /\ fnDone
    /\ ToolRuns = <<Event("pdftoppm", "fail"), Event("convert", "ok")>>
    /\ fnRet.err = NoError
    /\ Len(fnRet.images) >= 1

----------------------------------------------------------------------------
(* Properties of the calculator *)

\* r is n / d rounded to zero fractional digits, half away from zero (d > 0)
IsRounded(r, n, d) ==
    /\ 2 * Abs(r * d - n) <= d
    /\ (2 * Abs(r * d - n) = d) => Abs(r) * d > Abs(n)

\* amount - discountAmount of item, as the fraction TaxableNum / TaxableDen
TaxableNum(item) ==
    item.Amount.c * Pow10(item.DiscountAmt.e) - item.DiscountAmt.c * Pow10(item.Amount.e)
TaxableDen(item) == Pow10(item.Amount.e + item.DiscountAmt.e)

C10_DiscountAmount ==
    calcCalls > 0 =>
        IF liBefore.Discount.c # 0
        THEN /\ li.DiscountAmt.e = 0
             /\ IsRounded(li.DiscountAmt.c, li.Amount.c * liBefore.Discount.c,
                          100 * Pow10(li.Amount.e + liBefore.Discount.e))
        ELSE li.DiscountAmt.c = 0

----------------------------------------------------------------------------
(* Properties of the invoice totals *)

TotalsCalculated == Len(invOps) > 0 /\ invOps[Len(invOps)] = "CalculateTotals"

\* every amount of a calculated invoice has at most TotalsDigits fractional digits
TotalsDigits == 2 * MaxExp

\* d in units of 10^-TotalsDigits
Scaled(d) == d.c * Pow10(TotalsDigits - d.e)

\* sum over the line items of (Amount - DiscountAmt), in units of 10^-TotalsDigits
RECURSIVE TaxableSum(_, _)
TaxableSum(items, n) ==
    IF n = 0 THEN 0
    ELSE TaxableSum(items, n - 1) + Scaled(items[n].Amount) - Scaled(items[n].DiscountAmt)

\* sum over the line items of VATAmount, in units of 10^-TotalsDigits
RECURSIVE VATSum(_, _)
VATSum(items, n) ==
    IF n = 0 THEN 0
    ELSE VATSum(items, n - 1) + Scaled(items[n].VATAmount)

\* C11 as stated: after CalculateTotals, TotalAmount is SubtotalAmount +
\* TaxAmount exactly, being computed from the already-rounded subtotal and tax.
C11_TotalIsSubtotalPlusTax ==
    TotalsCalculated =>
        /\ invoice.TotalAmount.e = 0
        /\ invoice.TotalAmount.c = invoice.SubtotalAmount.c + invoice.TaxAmount.c

\* C11 amended: after CalculateTotals, SubtotalAmount is the sum of
\* (Amount - DiscountAmt) rounded half away from zero to a whole number,
\* TaxAmount is the sum of VATAmount rounded likewise, and TotalAmount is the
\* UNROUNDED sum of (Amount - DiscountAmt) plus the sum of VATAmount, rounded
\* likewise; TotalAmount equals SubtotalAmount + TaxAmount whenever the
\* unrounded subtotal and the unrounded total do not have opposite signs.
C11_TotalsFormulas ==
    TotalsCalculated =>
        LET n == Len(invoice.Items)
            subtotal == TaxableSum(invoice.Items, n)
            tax == VATSum(invoice.Items, n)
            unit == Pow10(TotalsDigits)
        IN  /\ invoice.SubtotalAmount.e = 0
            /\ IsRounded(invoice.SubtotalAmount.c, subtotal, unit)
            /\ invoice.TaxAmount.e = 0
            /\ IsRounded(invoice.TaxAmount.c, tax, unit)
            /\ invoice.TotalAmount.e = 0
            /\ IsRounded(invoice.TotalAmount.c, subtotal + tax, unit)
            /\ (subtotal * (subtotal + tax) >= 0) =>
                    invoice.TotalAmount.c = invoice.SubtotalAmount.c + invoice.TaxAmount.c

\* three items with taxable amounts 10 (VAT 1), -10 and -0.5: the subtotal
\* -0.5 rounds to -1, the total 0.5 rounds to 1
C11_Witness ==
    /\ TotalsCalculated
    /\ Len(invoice.Items) = 3
    /\ invoice.SubtotalAmount = Dec(-1, 0)
    /\ invoice.TaxAmount = Dec(1, 0)
    /\ invoice.TotalAmount = Dec(1, 0)

\* the taxable amount (Amount - DiscountAmt) of a line item is a whole number
TaxableIsWhole(item) ==
    (Scaled(item.Amount) - Scaled(item.DiscountAmt)) % Pow10(TotalsDigits) = 0

\* sum over the line items of Total, each a whole number
RECURSIVE LineTotalSum(_, _)
LineTotalSum(items, n) ==
    IF n = 0 THEN 0
    ELSE LineTotalSum(items, n - 1) + items[n].Total.c

\* C27: after CalculateTotals every VATAmount, line Total, SubtotalAmount,
\* TaxAmount and TotalAmount has zero fractional digits; and if every line
\* item's taxable amount (Amount - DiscountAmt) is a whole number, TotalAmount
\* is the sum of the line items' Total fields and SubtotalAmount is the sum of
\* their taxable amounts.
C27_TotalsAddUp ==
    TotalsCalculated =>
        LET n == Len(invoice.Items) IN
        /\ \A i \in 1..n : invoice.Items[i].VATAmount.e = 0 /\ invoice.Items[i].Total.e = 0
        /\ invoice.SubtotalAmount.e = 0
        /\ invoice.TaxAmount.e = 0
        /\ invoice.TotalAmount.e = 0
        /\ (\A i \in 1..n : TaxableIsWhole(invoice.Items[i])) =>
             /\ invoice.TotalAmount.c = LineTotalSum(invoice.Items, n)
             /\ invoice.SubtotalAmount.c * Pow10(TotalsDigits) = TaxableSum(invoice.Items, n)

\* several line items with whole taxable amounts, one of them discounted, and
\* a tax that is not zero
C27_Witness ==
    /\ TotalsCalculated
    /\ Len(invoice.Items) >= 2
    /\ \A i \in DOMAIN invoice.Items : TaxableIsWhole(invoice.Items[i])
    /\ \E i \in DOMAIN invoice.Items : invoice.Items[i].DiscountAmt.c # 0
    /\ invoice.TaxAmount.c # 0
    /\ invoice.TotalAmount.c = LineTotalSum(invoice.Items, Len(invoice.Items))

\* C12: the calculator is idempotent: a second CalculateTotals (which calls
\* Calculate on each line item again) changes no field of any line item and
\* no invoice total.
C12_Idempotent ==
    (Len(invOps) >= 2 /\ invOps[Len(invOps) - 1] = "CalculateTotals" /\ TotalsCalculated)
        => invoice = invBefore

\* a second run on an invoice with a discounted fractional item and a return
C12_Witness ==
    /\ Len(invOps) = 2
    /\ TotalsCalculated
    /\ Len(invoice.Items) = 2
    /\ invoice.Items[1].DiscountAmt = Dec(1, 0)
    /\ invoice.Items[1].Total = Dec(2, 0)
    /\ invoice.Items[2].Amount = Dec(-5, 1)
    /\ invoice.TotalAmount = Dec(1, 0)

----------------------------------------------------------------------------
(* Properties of the numeric-literal parser *)

\* the literal without its '.' characters
WithoutDots(n) == SelectSeq(n, LAMBDA ch : ch # ".")

\* s is [-]digits[,digits] with at least one digit
IsVietnameseNumber(s) ==
    LET body == IF s # <<>> /\ s[1] = "-" THEN Tail(s) ELSE s
    IN  /\ \A i \in 1..Len(body) : IsDigit(body[i]) \/ body[i] = ","
        /\ Cardinality({i \in 1..Len(body) : body[i] = ","}) <= 1
        /\ \E i \in 1..Len(body) : IsDigit(body[i])

\* number of digits of s after its ','
FractionDigits(s) ==
    IF \E i \in 1..Len(s) : s[i] = ","
    THEN Len(s) - (CHOOSE i \in 1..Len(s) : s[i] = ",")
    ELSE 0

\* the digits of s read as one integer, with the sign of s
Coefficient(s) ==
    LET v == DigitsToInt(SelectSeq(s, IsDigit))
    IN  IF s # <<>> /\ s[1] = "-" THEN -v ELSE v

\* s cannot be a number wherever its sign is put: it is empty, has no digit,
\* has two ',' or has a character that is not a digit, a sign or a ','
IsNotANumber(s) ==
    \/ \A i \in 1..Len(s) : ~IsDigit(s[i])
    \/ Cardinality({i \in 1..Len(s) : s[i] = ","}) > 1
    \/ \E i \in 1..Len(s) : ~IsDigit(s[i]) /\ s[i] \notin {",", "-", "+"}

C14_WitnessFailure ==
    /\ fnDone
    /\ fnArg = <<"1", ",", "5", ",", "0">>
    /\ fnRet = Zero

----------------------------------------------------------------------------
(* Properties of the normalizer *)

Normalized == Len(invOps) > 0 /\ invOps[Len(invOps)] = "convertToInvoice"

IsWhole(d) == d.c % Pow10(d.e) = 0
WholePart(d) == d.c \div Pow10(d.e)

\* the derived fields of item follow the calculator's formulas
DerivedFieldsConsistent(item) ==
    /\ item.Amount.c * Pow10(item.Quantity.e + item.UnitPrice.e)
           = item.Quantity.c * item.UnitPrice.c * Pow10(item.Amount.e)
    /\ IsWhole(item.DiscountAmt)
    /\ IsRounded(WholePart(item.DiscountAmt), item.Amount.c * item.Discount.c,
                 100 * Pow10(item.Amount.e + item.Discount.e))
    /\ IsWhole(item.VATAmount)
    /\ IsRounded(WholePart(item.VATAmount), TaxableNum(item) * item.VATRate,
                 100 * TaxableDen(item))
    /\ IsWhole(item.Total)
    /\ IsRounded(WholePart(item.Total),
                 TaxableNum(item) + WholePart(item.VATAmount) * TaxableDen(item),
                 TaxableDen(item))

\* C13 as stated: every LineItem of an Invoice produced by the response
\* normalizer has derived fields (Amount, DiscountAmt, VATAmount, Total) that
\* follow the calculator's formulas from Quantity, UnitPrice, Discount and
\* VATRate.
C13_DerivedFieldsConsistent ==
    Normalized =>
        \A i \in DOMAIN invoice.Items : DerivedFieldsConsistent(invoice.Items[i])

\* vat_rate literals whose value is zero, missing or unparsable
ZeroRateTokens == {EmptyNumber, <<"x">>, <<"0">>, <<"0", ",", "0">>}

\* the rate each other literal of VATRateTokens stands for, truncated to an
\* integer: "7,5" is 7.5, "0,5" is 0.5, and '.' is a thousands separator, so
\* "7.5" is 75 and "0.5" is 5
RateOf(tok) ==
    CASE tok = <<"5">> -> 5
      [] tok = <<"1", "0">> -> 10
      [] tok = <<"8">> -> 8
      [] tok = <<"7", ",", "5">> -> 7
      [] tok = <<"0", ",", "5">> -> 0
      [] tok = <<"7", ".", "5">> -> 75
      [] tok = <<"0", ".", "5">> -> 5
      [] tok = <<"-", "5">> -> -5
      [] OTHER -> 0

\* the line item the same response item gives when its vat_rate is absent
WithoutRate(item) == convertLineItem([item EXCEPT !.VATRate = EmptyNumber])

\* C16: a line item's VATRate is written from vat_rate only when the parsed
\* value is non-zero; a zero, missing or unparsable vat_rate leaves it 0, so
\* an absent rate and an explicit 0% rate give identical line items.
C16_VATRateOnlyWhenNonZero ==
    Normalized =>
        \A i \in DOMAIN invoice.Items :
            LET tok == resp.Items[i].VATRate
            IN  /\ tok \in ZeroRateTokens =>
                    /\ invoice.Items[i].VATRate = 0
                    /\ invoice.Items[i] = WithoutRate(resp.Items[i])
                /\ tok \notin ZeroRateTokens =>
                    /\ invoice.Items[i].VATRate = RateOf(tok)
                    /\ [invoice.Items[i] EXCEPT !.VATRate = 0] = WithoutRate(resp.Items[i])

\* two items, the first with an explicit "0" rate, the second with rate 10
C16_Witness ==
    /\ Normalized
    /\ Len(invoice.Items) = 2
    /\ resp.Items[1].VATRate = <<"0">>
    /\ invoice.Items[1].VATRate = 0
    /\ resp.Items[2].VATRate = <<"1", "0">>
    /\ invoice.Items[2].VATRate = 10

\* C17 as stated: every LineItem produced by the normalizer has VATRate in
\* {0, 5, 10}, whatever the vat_rate literal of the response.
C17_VATRateIsLegal ==
    Normalized =>
        \A i \in DOMAIN invoice.Items : invoice.Items[i].VATRate \in {0, 5, 10}

RoundTripped == invOps = <<"Serialize", "convertToInvoice">>

\* C15 as stated: a canonical invoice serialised to normalizer-compatible
\* JSON with Vietnamese numeric formatting and passed through the normalizer
\* comes back the same invoice, field for field: header, both parties, line
\* items, totals, currency and receipt fields.
C15_RoundTrip ==
    RoundTripped => invoice = invBefore

----------------------------------------------------------------------------
(* Properties of the printability filter *)

\* number of characters of s in the allow-list
AllowedCharacters(s) == Cardinality({i \in 1..Len(s) : IsPrintableRune(s[i])})

\* C18 as stated: a decoded candidate string is retained iff the fraction of
\* its characters that are in the allow-list is strictly greater than 0.5,
\* also for strings with multi-byte characters; a string at exactly 0.5 and
\* the empty string are dropped.
C18_RetainedIffMostlyPrintable ==
    fnDone => (fnRet <=> (Len(fnArg) > 0 /\ 2 * AllowedCharacters(fnArg) > Len(fnArg)))

----------------------------------------------------------------------------
(* Properties of the format detection *)

\* "<?xml" lies within the first 100 bytes of d
HasXMLDeclaration(d) ==
    \E i \in 1..96 : i + 4 <= Len(d) /\ SubSeq(d, i, i + 4) = XMLDeclaration

LooksLikeXML(d) == Len(d) > 0 /\ (d[1] = 60 \/ HasXMLDeclaration(d))

HasImageMagic(d) ==
    \/ HasPrefix(d, PNGMagic)
    \/ HasPrefix(d, JPEGMagic)
    \/ HasPrefix(d, TIFFLittleEndianMagic)
    \/ HasPrefix(d, TIFFBigEndianMagic)

\* C19 as stated: DetectFormat returns xml for every non-empty input, of any
\* length (1 to 5 bytes included), that starts with '<' or has "<?xml" within
\* its first 100 bytes, and unknown for the empty input.
C19_XMLAtAnyLength ==
    fnDone =>
        /\ Len(fnArg) = 0 => fnRet = FormatUnknown
        /\ LooksLikeXML(fnArg) => fnRet = FormatXML

\* C19 amended: DetectFormat returns xml for every input of more than 5 bytes
\* that starts with '<' or has "<?xml" within its first 100 bytes; it never
\* returns xml for an input of 1 to 5 bytes, and returns unknown for the
\* empty input.
C19_XMLWhenLongerThan5 ==
    fnDone =>
        /\ Len(fnArg) = 0 => fnRet = FormatUnknown
        /\ (Len(fnArg) > 5 /\ LooksLikeXML(fnArg)) => fnRet = FormatXML
        /\ Len(fnArg) <= 5 => fnRet # FormatXML

\* "<?xml" in bytes 96..100 after 95 spaces
C19_Witness ==
    /\ fnDone
    /\ Len(fnArg) >= 100
    /\ fnArg[1] = 32
    /\ SubSeq(fnArg, 96, 100) = XMLDeclaration
    /\ fnRet = FormatXML

\* C20 as stated: for every input not classified xml, DetectFormat returns
\* pdf when the first 4 bytes are "%PDF"; otherwise image whenever the input
\* begins with the PNG, JPEG or TIFF magic, however many bytes follow the
\* magic; otherwise unknown.
C20_MagicAtAnyLength ==
    (fnDone /\ fnRet # FormatXML) =>
        fnRet = IF HasPrefix(fnArg, PDFMagic) THEN FormatPDF
                ELSE IF HasImageMagic(fnArg) THEN FormatImage
                ELSE FormatUnknown

\* C20 amended: for every input not classified xml, DetectFormat returns pdf
\* when the first 4 bytes are "%PDF"; otherwise image whenever the input is
\* at least 8 bytes long and begins with the PNG, JPEG or TIFF magic;
\* otherwise unknown.
C20_MagicWhenAtLeast8 ==
    (fnDone /\ fnRet # FormatXML) =>
        fnRet = IF HasPrefix(fnArg, PDFMagic) THEN FormatPDF
                ELSE IF Len(fnArg) >= 8 /\ HasImageMagic(fnArg) THEN FormatImage
                ELSE FormatUnknown

\* a big-endian TIFF header of exactly 8 bytes
C20_Witness ==
    /\ fnDone
    /\ Len(fnArg) = 8
    /\ HasPrefix(fnArg, TIFFBigEndianMagic)
    /\ fnRet = FormatImage


----------------------------------------------------------------------------
(* Properties of the string-extraction heuristic *)

\* the candidates of a scan that pass the printability filter, in order
Retained(texts) == SelectSeq(texts, isPrintableText)

\* the strings of ss with one space between neighbours
RECURSIVE JoinWithSpaces(_)
JoinWithSpaces(ss) ==
    IF ss = <<>> THEN <<>>
    ELSE IF Len(ss) = 1 THEN ss[1]
    ELSE ss[1] \o <<32>> \o JoinWithSpaces(Tail(ss))

\* retained literal strings in their order, then retained hex strings in theirs
LiteralsThenHex(content) ==
    JoinWithSpaces(Retained(LiteralTexts(content)) \o Retained(HexTexts(content)))

\* C23 as stated: the output is exactly the retained literal strings in their
\* order of occurrence followed by the retained hex strings in theirs, joined
\* by single spaces.
C23_ExactlyJoined ==
    fnDone => fnRet = LiteralsThenHex(fnArg)

\* C23 amended: the output is the retained literal strings in their order of
\* occurrence followed by the retained hex strings in theirs, joined by single
\* spaces, with the white space at the two ends of the joined text trimmed; no
\* retained hex string precedes a retained literal string.
C23_JoinedAndTrimmed ==
    fnDone => fnRet = TrimSpaceRunes(LiteralsThenHex(fnArg))

\* a hex string that stands before a literal string in the stream comes out
\* after it: <41>(a) gives "a A"
C23_Witness ==
    /\ fnDone
    /\ fnArg = <<60, 52, 49, 62, 40, 97, 41>>
    /\ fnRet = <<97, 32, 65>>


----------------------------------------------------------------------------
(* Properties of the label-proximity lookup *)

Least(S) == CHOOSE x \in S : \A y \in S : x <= y

\* the lines of the mined text, and those that contain the label
NearLines == SplitLines(fnArg.RawText)
LabelLines ==
    {i \in DOMAIN NearLines :
        contains(ToLowerRunes(NearLines[i]), ToLowerRunes(fnArg.label))}

\* ends with a colon, or contains a known field token while its length is
\* under 50
LooksLikeLabel(s, length) ==
    \/ (s # <<>> /\ s[Len(s)] = 58)
    \/ (length < 50 /\ \E token \in labels : contains(ToLowerRunes(s), token))

\* positions of the colons of a line
Colons(line) == {k \in DOMAIN line : line[k] = 58}

\* positions of the colons that stand after the first occurrence of the label
ColonsAfterLabel(line) ==
    LET n == Len(fnArg.label)
        at == Least({k \in 0..(Len(line) - n) :
                        ToLowerRunes(SubSeq(line, k + 1, k + n)) = ToLowerRunes(fnArg.label)})
    IN  {k \in Colons(line) : k > at + n}

\* the text that follows position k of a line, trimmed
RemainderAfter(line, k) == TrimSpaceRunes(SubSeq(line, k + 1, Len(line)))

\* the non-blank lines after line i, trimmed, in order
NonBlankAfter(i) ==
    SelectSeq([k \in 1..(Len(NearLines) - i) |-> TrimSpaceRunes(NearLines[i + k])],
              LAMBDA v : v # <<>>)

\* C24 as stated: for the first line containing the label, if the line has a
\* colon after the label the result is the trimmed remainder after that colon;
\* otherwise it is the first of the up to N following non-blank lines (blank
\* lines not counted) that is not label-like, a line being label-like when it
\* ends with a colon or holds a known field token in fewer than 50 characters.
C24_ColonAfterLabelOrNextNonBlank ==
    (fnDone /\ LabelLines # {}) =>
        LET i == Least(LabelLines)
            line == NearLines[i]
            after == NonBlankAfter(i)
            near == SubSeq(after, 1, min(fnArg.maxDistance, Len(after)))
            values == SelectSeq(near, LAMBDA v : ~LooksLikeLabel(v, Len(v)))
        IN  IF ColonsAfterLabel(line) # {}
            THEN fnRet = RemainderAfter(line, Least(ColonsAfterLabel(line)))
            ELSE fnRet = (IF values = <<>> THEN <<>> ELSE values[1])

\* what the lookup finds at label line i: the trimmed text after the first
\* colon of the line if there is any, else the first of the N lines that
\* follow (blank ones counted) that is neither blank nor label-like in bytes
ValueAt(i) ==
    LET line == NearLines[i]
        sameLine == IF Colons(line) = {} THEN <<>>
                    ELSE RemainderAfter(line, Least(Colons(line)))
        following == {j \in 1..fnArg.maxDistance :
                         /\ i + j <= Len(NearLines)
                         /\ TrimSpaceRunes(NearLines[i + j]) # <<>>
                         /\ ~LooksLikeLabel(TrimSpaceRunes(NearLines[i + j]),
                                            ByteLen(TrimSpaceRunes(NearLines[i + j])))}
    IN  IF sameLine # <<>> THEN sameLine
        ELSE IF following = {} THEN <<>>
        ELSE TrimSpaceRunes(NearLines[i + Least(following)])

\* C24 amended: the result is the value of the first line that contains the
\* label (case-insensitive) and has a value, or the empty string; the value of
\* a label line is the trimmed text after the FIRST colon of the line, wherever
\* the colon stands, when that text is not empty; otherwise it is the first of
\* the N lines that follow it, blank lines COUNTED, that is neither blank nor
\* label-like; label-like means ending with a colon or containing a known
\* field token while shorter than 50 BYTES.
C24_FirstColonOrNextLines ==
    fnDone =>
        LET yielding == {i \in LabelLines : ValueAt(i) # <<>>}
        IN  fnRet = (IF yielding = {} THEN <<>> ELSE ValueAt(Least(yielding)))

\* "Date:" then a blank line then " 42 ", looked up with N = 2: the empty
\* remainder is passed over, the blank line uses up one of the two lines, and
\* the trimmed "42" is found
C24_Witness ==
    /\ fnDone
    /\ fnArg.RawText = <<68, 97, 116, 101, 58, 10, 10, 32, 52, 50, 32>>
    /\ fnArg.label = <<68, 65, 84, 69>>
    /\ fnArg.maxDistance = 2
    /\ fnRet = <<52, 50>>


----------------------------------------------------------------------------
(* Properties of concurrent calls *)

\* the Result of caller c's call made alone on the Pipeline, with the answers
\* its collaborators gave it
RunAlone(c) ==
    LET a == fnRet[c].answers
        tr == IF a.text_write = "fail"
              THEN tryLLMTextExtractionNoText(
                       [RawText |-> "", err |-> Wrap("failed to read PDF", IOError)])
              ELSE tryLLMTextExtractionResult(ModelCall(a.text_llm, {c}))
        vr == IF a.vision_write = "fail"
              THEN tryLLMVisionExtractionNoImage(convertPDFToImages("fail", "fail"))
              ELSE tryLLMVisionExtractionResult(ModelCall(a.vision_llm, {c}))
    IN  CASE fnRet[c].op = "ProcessXML" -> ProcessXMLBytesResult(a.xml)
          [] fnRet[c].op = "ProcessImage" -> vr
          [] OTHER -> IF TextStageWins(tr) THEN tr ELSE ProcessPDFReturn(tr, vr)

\* C21: concurrent ProcessXML / ProcessPDF / ProcessImage calls on one Pipeline
\* are independent: no call writes a field of the Pipeline, in every
\* interleaving the Result of each call is the one it produces alone with the
\* same collaborator answers, and no two calls return the same Invoice object.
C21_CallsIndependent ==
    /\ llmExtractor = "configured"
    /\ \A c \in Callers :
         fnRet[c].pc = "done" =>
            /\ fnRet[c].result = RunAlone(c)
            /\ fnRet[c].result.Invoice # NoInvoice =>
                 /\ fnRet[c].obj # 0
                 /\ \A d \in Callers \ {c} : fnRet[d].obj # fnRet[c].obj

\* two ProcessPDF calls ran interleaved, each through both of its temp
\* directories, and each returned the invoice of its own document
C21_Witness ==
    /\ \A c \in Callers :
         /\ fnRet[c].pc = "done"
         /\ fnRet[c].op = "ProcessPDF"
         /\ fnRet[c].answers.text_llm = "decode_err"
         /\ fnRet[c].answers.vision_llm = "ok"
         /\ fnRet[c].result.Method = MethodLLMVision
    /\ fnRet["a"].result.Invoice = "invoice(a)"
    /\ fnRet["b"].result.Invoice = "invoice(b)"
    /\ fnRet["a"].obj # fnRet["b"].obj

====
